---- MODULE Spec2Model ----
(***************************************************************************)
(* Motion & toolpath simulation core: the deterministic simulation engine  *)
(* contract (SimulationEngineBase, StepController, SimulationState), the   *)
(* toolpath validator and the Cartesian 3-axis kinematics.                 *)
(*                                                                         *)
(* Time is counted in microseconds (the default fixed time step 0.001 s is *)
(* 1000).  Toolpath lengths are counted in ticks of 5e-7 position units,   *)
(* so that the validator's tolerance 1e-6 is 2 ticks.                      *)
(***************************************************************************)
EXTENDS Integers, Sequences, FiniteSets, TLC

VARIABLES
    eng,        \* eng[r]: SimulationEngineBase object r (initialized_, time_)
    st,         \* st[r]: SimulationState object r, or Nil when not constructed
    heap,       \* heap[g]: MaterialGrid object g, or Nil when not allocated
    ctl,        \* ctl[r]: StepController r: engine_ (null or not), lastResult_
    last,       \* record of the most recent call: arguments, pre-state, return
    lifecycle,  \* most recent successful lifecycle call on eng[1]
    script,     \* determinism runs: the call sequence both runs apply
    table,      \* determinism runs: the deterministic doStep of both engines
    pc,         \* determinism runs: pc[r] = calls of script run r has made
    log,        \* determinism runs: log[r] = StepResults run r has observed
    tp,         \* toolpath: the Toolpath's moves_
    tpChained,  \* toolpath: every move so far was chained to its predecessor
    tp2,        \* toolpath: a copy of tp with one end position changed
    tpIdx,      \* toolpath: the index changed in tp2
    vres,       \* toolpath: outcome of the last validate/validateMove call
    toolUsage,  \* toolpath: the Toolpath's toolUsage_ (0 = no entry)
    tpCalls,    \* toolpath: the factory call that built each move of tp
    kin,        \* kinematics: input, intermediate and final round-trip values
    geo         \* geometry: arguments and results of the last computation

vars == <<eng, st, heap, ctl, last, lifecycle, script, table, pc, log,
          tp, tpChained, tp2, tpIdx, vres, toolUsage, tpCalls, kin, geo>>

simVars == <<eng, st, heap, ctl, last, lifecycle>>
detVars == <<script, table, pc, log>>
tpVars == <<tp, tpChained, tp2, tpIdx, vres, toolUsage, tpCalls>>
pureVars == <<kin, geo>>

Nil == [nil |-> TRUE]

\* ------------------------------------------------------------------ bounds
MaxSteps == 3
MaxMaterial == 2
MaxBatch == 2
MaxScript == 2
NumSweeps == 2
MaxMoves == 2
MaxAxis == 2
MaxCoord == 1

\* --------------------------------------------------------- program constants
DefaultTimeStep == 1000

Slots == {1, 2}
GridIds == {1, 2}

\* ------------------------------------------------------------------ Error.h
\* Error::Error(): code Success, recoverable_ true.
Error_success == [code |-> "Success", recoverable |-> TRUE]

Error_make(code, recoverable) == [code |-> code, recoverable |-> recoverable]

Error_isSuccess(e) == e.code = "Success"

\* -------------------------------------------------------------- StepResult.h
StepResult_success ==
    [error |-> Error_success, materialRemovedVolume |-> 0,
     collisionDetected |-> FALSE]

makeError(code, recoverable) ==
    [error |-> Error_make(code, recoverable), materialRemovedVolume |-> 0,
     collisionDetected |-> FALSE]

\* A collision result whose error is not recoverable.
StepResult_collision_NotRecoverable ==
    [error |-> Error_make("SimulationToolCollision", FALSE),
     materialRemovedVolume |-> 0, collisionDetected |-> TRUE]

StepResult_collision ==
    [error |-> Error_make("SimulationToolCollision", TRUE),
     materialRemovedVolume |-> 0, collisionDetected |-> TRUE]

isSuccess(r) == Error_isSuccess(r.error) /\ ~r.collisionDetected

hasError(r) == ~Error_isSuccess(r.error)

\* ------------------------------------------------------------------- Time.h
\* SimulationTime(fixedTimeStep): a non-positive step falls back to 0.001 s.
SimulationTime(fixedTimeStep) ==
    [fixedTimeStep |-> IF fixedTimeStep > 0 THEN fixedTimeStep ELSE DefaultTimeStep,
     accumulatedTime |-> 0, stepCount |-> 0]

Time_step(t) ==
    [t EXCEPT !.accumulatedTime = @ + t.fixedTimeStep, !.stepCount = @ + 1]

\* A getTimeDelta that returns the time after the step instead of the step.
getTimeDelta_Accumulated(t) == t.accumulatedTime + t.fixedTimeStep

getTimeDelta(t) == t.fixedTimeStep

Time_reset(t) == [t EXCEPT !.accumulatedTime = 0, !.stepCount = 0]

\* ------------------------------------------------------------ MaterialGrid.h
\* A grid object: whether it reports itself valid and how much material is left.
Grid(valid, material) == [valid |-> valid, material |-> material]

FreeGrids(h) == {g \in GridIds : h[g] = Nil}

\* MaterialGrid::removeRegion on grid g: removes up to n units of material.
removeRegion(h, g, n) ==
    [h EXCEPT ![g] = [@ EXCEPT !.material = IF @ >= n THEN @ - n ELSE 0]]

\* MaterialGrid::clone: a new grid object holding a copy of the content.
Grid_clone(h, g, fresh) == [h EXCEPT ![fresh] = h[g]]

\* --------------------------------------------------------- SimulationState.h
\* grid = 0 is a null materialGrid_.
SimulationState(grid, pose, seed) ==
    [grid |-> grid, toolPose |-> pose, machineAxes |-> 0,
     stepCount |-> 0, timeAccumulator |-> 0, deterministicSeed |-> seed]

\* A copy that takes over the other state's grid pointer instead of cloning.
State_copy_Shallow(other, h, fresh) == [st |-> other, heap |-> h]

\* SimulationState(const SimulationState& other): the fields are copied and
\* the grid, when there is one, is replaced by a clone stored at `fresh`.
State_copy(other, h, fresh) ==
    IF other.grid # 0
    THEN [st |-> [other EXCEPT !.grid = fresh], heap |-> Grid_clone(h, other.grid, fresh)]
    ELSE [st |-> other, heap |-> h]

\* clone(): return SimulationState(*this).
State_clone(s, h, fresh) == State_copy(s, h, fresh)

State_isValid(s, h) == s.grid # 0 /\ h[s.grid].valid

incrementStepCount(s) == [s EXCEPT !.stepCount = @ + 1]

addTime(s, deltaTime) == [s EXCEPT !.timeAccumulator = @ + deltaTime]

\* ---------------------------------------------------- SimulationEngineBase.h
SimulationEngineBase(fixedTimeStep) ==
    [time |-> SimulationTime(fixedTimeStep), initialized |-> FALSE]

\* What a derived engine's doStep does in one call: the StepResult it returns
\* and the amount of material it removes through the state's grid.
DoStepOutcomes ==
    { [kind |-> "success", removed |-> n, recoverable |-> TRUE] : n \in 0..1 }
    \cup { [kind |-> "error", removed |-> 0, recoverable |-> FALSE] }
    \cup { [kind |-> "collision", removed |-> 0, recoverable |-> TRUE] }

\* doStep is pure virtual: the derived engine acts on the state as `outcome` says.
doStep(s, h, outcome) ==
    [st |-> s,
     heap |-> IF outcome.removed > 0 THEN removeRegion(h, s.grid, outcome.removed) ELSE h,
     result |-> CASE outcome.kind = "success" ->
                     [StepResult_success EXCEPT !.materialRemovedVolume =
                         IF h[s.grid].material >= outcome.removed
                         THEN outcome.removed ELSE h[s.grid].material]
                  [] outcome.kind = "error" ->
                     makeError("SimulationStepFailed", outcome.recoverable)
                  [] OTHER -> StepResult_collision]

\* Default doInitialize and doReset: no-op, success.
\* A doInitialize hook that zeroes the state's counters.
doInitialize_ZeroesCounters(s) ==
    [st |-> [s EXCEPT !.stepCount = 0, !.timeAccumulator = 0], error |-> Error_success]

doInitialize(s) == [st |-> s, error |-> Error_success]

doReset(s) == [st |-> s, error |-> Error_success]

\* initialize() that marks the engine initialized but keeps its internal time.
initialize_NoTimeReset(e, s, h) ==
    IF ~State_isValid(s, h)
    THEN [eng |-> e, st |-> s, error |-> Error_make("SimulationInvalidState", FALSE)]
    ELSE LET d == doInitialize(s)
         IN [eng |-> IF Error_isSuccess(d.error)
                     THEN [e EXCEPT !.initialized = TRUE]
                     ELSE e,
             st |-> d.st, error |-> d.error]

initialize(e, s, h) ==
    IF ~State_isValid(s, h)
    THEN [eng |-> e, st |-> s, error |-> Error_make("SimulationInvalidState", FALSE)]
    ELSE LET d == doInitialize(s)
         IN [eng |-> IF Error_isSuccess(d.error)
                     THEN [e EXCEPT !.initialized = TRUE, !.time = Time_reset(@)]
                     ELSE e,
             st |-> d.st, error |-> d.error]

\* step() without the initialized_ check.
step_NoInitCheck(e, s, h, outcome) ==
    IF ~State_isValid(s, h)
    THEN [eng |-> e, st |-> s, heap |-> h, doStepCalls |-> 0,
          result |-> makeError("SimulationInvalidState", FALSE)]
    ELSE LET d == doStep(incrementStepCount(s), h, outcome)
         IN [eng |-> [e EXCEPT !.time = Time_step(@)],
             st |-> addTime(d.st, getTimeDelta(e.time)),
             heap |-> d.heap, doStepCalls |-> 1,
             result |-> d.result]

step(e, s, h, outcome) ==
    IF ~e.initialized
    THEN [eng |-> e, st |-> s, heap |-> h, doStepCalls |-> 0,
          result |-> makeError("SimulationInvalidState", TRUE)]
    ELSE IF ~State_isValid(s, h)
    THEN [eng |-> e, st |-> s, heap |-> h, doStepCalls |-> 0,
          result |-> makeError("SimulationInvalidState", FALSE)]
    ELSE LET d == doStep(incrementStepCount(s), h, outcome)
         IN [eng |-> [e EXCEPT !.time = Time_step(@)],
             st |-> addTime(d.st, getTimeDelta(e.time)),
             heap |-> d.heap, doStepCalls |-> 1,
             result |-> d.result]

\* reset() that forgets to clear initialized_.
reset_KeepsInitialized(e, s) ==
    LET d == doReset(s)
    IN [eng |-> IF Error_isSuccess(d.error)
                THEN [e EXCEPT !.time = Time_reset(@)]
                ELSE e,
        st |-> d.st, error |-> d.error]

reset(e, s) ==
    LET d == doReset(s)
    IN [eng |-> IF Error_isSuccess(d.error)
                THEN [e EXCEPT !.initialized = FALSE, !.time = Time_reset(@)]
                ELSE e,
        st |-> d.st, error |-> d.error]

\* ---------------------------------------------------------- StepController.h
\* StepController(engine): engine is FALSE for a null engine_.
StepController(engine) ==
    [engine |-> engine,
     lastResult |-> IF engine THEN StepResult_success
                    ELSE makeError("InvalidArgument", FALSE)]

StepController_initialize(c, e, s, h) ==
    IF ~c.engine
    THEN [ctl |-> [c EXCEPT !.lastResult = makeError("InvalidState", FALSE)],
          eng |-> e, st |-> s, ok |-> FALSE]
    ELSE LET r == initialize(e, s, h)
         IN [ctl |-> [c EXCEPT !.lastResult =
                        IF Error_isSuccess(r.error) THEN StepResult_success
                        ELSE makeError(r.error.code, r.error.recoverable)],
             eng |-> r.eng, st |-> r.st, ok |-> Error_isSuccess(r.error)]

stepOnce(c, e, s, h, outcome) ==
    IF ~c.engine
    THEN [ctl |-> [c EXCEPT !.lastResult = makeError("InvalidState", FALSE)],
          eng |-> e, st |-> s, heap |-> h, ok |-> FALSE,
          stepCalls |-> 0, doStepCalls |-> 0]
    ELSE IF ~State_isValid(s, h)
    THEN [ctl |-> [c EXCEPT !.lastResult = makeError("SimulationInvalidState", FALSE)],
          eng |-> e, st |-> s, heap |-> h, ok |-> FALSE,
          stepCalls |-> 0, doStepCalls |-> 0]
    ELSE LET r == step(e, s, h, outcome)
         IN [ctl |-> [c EXCEPT !.lastResult = r.result],
             eng |-> r.eng, st |-> r.st, heap |-> r.heap,
             ok |-> isSuccess(r.result),
             stepCalls |-> 1, doStepCalls |-> r.doStepCalls]

\* The loop of both stepN overloads; outs[i] is what doStep does on the i-th
\* sweep.  acc carries the controller, engine, state and heap, the count of
\* executed steps, and the StepResults the engine's step() calls returned.
\* The loop without its break: it goes on after a failed step.
RECURSIVE stepNLoop_NoBreak(_, _, _)
stepNLoop_NoBreak(acc, outs, i) ==
    IF i > Len(outs) THEN acc
    ELSE LET r == stepOnce(acc.ctl, acc.eng, acc.st, acc.heap, outs[i])
             nxt == [ctl |-> r.ctl, eng |-> r.eng, st |-> r.st, heap |-> r.heap,
                     executed |-> IF r.ok THEN acc.executed + 1 ELSE acc.executed,
                     stepCalls |-> acc.stepCalls + r.stepCalls,
                     doStepCalls |-> acc.doStepCalls + r.doStepCalls,
                     results |-> IF r.stepCalls = 1
                                 THEN Append(acc.results, r.ctl.lastResult)
                                 ELSE acc.results]
         IN stepNLoop_NoBreak(nxt, outs, i + 1)

RECURSIVE stepNLoop(_, _, _)
stepNLoop(acc, outs, i) ==
    IF i > Len(outs) THEN acc
    ELSE LET r == stepOnce(acc.ctl, acc.eng, acc.st, acc.heap, outs[i])
             nxt == [ctl |-> r.ctl, eng |-> r.eng, st |-> r.st, heap |-> r.heap,
                     executed |-> IF r.ok THEN acc.executed + 1 ELSE acc.executed,
                     stepCalls |-> acc.stepCalls + r.stepCalls,
                     doStepCalls |-> acc.doStepCalls + r.doStepCalls,
                     results |-> IF r.stepCalls = 1
                                 THEN Append(acc.results, r.ctl.lastResult)
                                 ELSE acc.results]
         IN IF ~r.ok THEN nxt ELSE stepNLoop(nxt, outs, i + 1)

stepNStart(c, e, s, h) ==
    [ctl |-> c, eng |-> e, st |-> s, heap |-> h, executed |-> 0,
     stepCalls |-> 0, doStepCalls |-> 0, results |-> <<>>]

\* stepN(state, sweep, numSteps): numSteps = Len(outs), zero allowed.
stepN(c, e, s, h, outs) ==
    IF ~c.engine \/ ~State_isValid(s, h) THEN stepNStart(c, e, s, h)
    ELSE stepNLoop(stepNStart(c, e, s, h), outs, 1)

\* stepN(state, sweeps) counting a step before testing whether it succeeded.
stepNList_CountsAttempts(c, e, s, h, outs) ==
    IF ~c.engine \/ ~State_isValid(s, h) \/ Len(outs) = 0
    THEN stepNStart(c, e, s, h)
    ELSE LET r == stepNLoop(stepNStart(c, e, s, h), outs, 1)
         IN [r EXCEPT !.executed = r.stepCalls]

\* stepN(state, sweeps): one sweep per entry of outs.
stepNList(c, e, s, h, outs) ==
    IF ~c.engine \/ ~State_isValid(s, h) \/ Len(outs) = 0
    THEN stepNStart(c, e, s, h)
    ELSE stepNLoop(stepNStart(c, e, s, h), outs, 1)

StepController_reset(c, e, s) ==
    IF ~c.engine
    THEN [ctl |-> [c EXCEPT !.lastResult = makeError("InvalidState", FALSE)],
          eng |-> e, st |-> s, ok |-> FALSE]
    ELSE LET r == reset(e, s)
         IN [ctl |-> [c EXCEPT !.lastResult =
                        IF Error_isSuccess(r.error) THEN StepResult_success
                        ELSE makeError(r.error.code, r.error.recoverable)],
             eng |-> r.eng, st |-> r.st, ok |-> Error_isSuccess(r.error)]

\* ------------------------------------------- engine and controller: the calls
\* The record kept of the most recent call.
Call(op, ok, result, executed, outs, stepCalls, doStepCalls, results) ==
    [op |-> op, ok |-> ok, result |-> result, executed |-> executed,
     outs |-> outs, stepCalls |-> stepCalls, doStepCalls |-> doStepCalls,
     results |-> results,
     preInitialized |-> eng[1].initialized,
     preStepCount |-> st[1].stepCount,
     preTime |-> st[1].timeAccumulator,
     preValid |-> State_isValid(st[1], heap),
     preLifecycle |-> lifecycle,
     preLast |-> ctl[1].lastResult]

NoCall ==
    [op |-> "none", ok |-> TRUE, result |-> StepResult_success, executed |-> 0,
     outs |-> <<>>, stepCalls |-> 0, doStepCalls |-> 0, results |-> <<>>,
     preInitialized |-> FALSE, preStepCount |-> 0, preTime |-> 0,
     preValid |-> FALSE, preLifecycle |-> "none",
     preLast |-> StepResult_success]

ErrorResult(error) ==
    IF Error_isSuccess(error) THEN StepResult_success
    ELSE makeError(error.code, error.recoverable)

OutcomeSeqs(n) == UNION { [1..k -> DoStepOutcomes] : k \in 0..n }

Room(n) == st[1].stepCount + n <= MaxSteps

Engine_initialize ==
    LET r == initialize(eng[1], st[1], heap)
    IN /\ eng' = [eng EXCEPT ![1] = r.eng]
       /\ st' = [st EXCEPT ![1] = r.st]
       /\ lifecycle' = IF Error_isSuccess(r.error) THEN "initialize" ELSE lifecycle
       /\ last' = Call("initialize", Error_isSuccess(r.error), ErrorResult(r.error),
                       0, <<>>, 0, 0, <<>>)
       /\ UNCHANGED <<heap, ctl>>

Engine_step ==
    \E outcome \in DoStepOutcomes :
        LET r == step(eng[1], st[1], heap, outcome)
        IN /\ Room(1)
           /\ eng' = [eng EXCEPT ![1] = r.eng]
           /\ st' = [st EXCEPT ![1] = r.st]
           /\ heap' = r.heap
           /\ last' = Call("step", isSuccess(r.result), r.result,
                           0, <<outcome>>, 1, r.doStepCalls, <<r.result>>)
           /\ UNCHANGED <<ctl, lifecycle>>

Engine_reset ==
    LET r == reset(eng[1], st[1])
    IN /\ eng' = [eng EXCEPT ![1] = r.eng]
       /\ st' = [st EXCEPT ![1] = r.st]
       /\ lifecycle' = IF Error_isSuccess(r.error) THEN "reset" ELSE lifecycle
       /\ last' = Call("reset", Error_isSuccess(r.error), ErrorResult(r.error),
                       0, <<>>, 0, 0, <<>>)
       /\ UNCHANGED <<heap, ctl>>

Controller_initialize ==
    LET r == StepController_initialize(ctl[1], eng[1], st[1], heap)
    IN /\ ctl' = [ctl EXCEPT ![1] = r.ctl]
       /\ eng' = [eng EXCEPT ![1] = r.eng]
       /\ st' = [st EXCEPT ![1] = r.st]
       /\ lifecycle' = IF r.ok THEN "initialize" ELSE lifecycle
       /\ last' = Call("ctlInitialize", r.ok, r.ctl.lastResult, 0, <<>>, 0, 0, <<>>)
       /\ UNCHANGED heap

Controller_stepOnce ==
    \E outcome \in DoStepOutcomes :
        LET r == stepOnce(ctl[1], eng[1], st[1], heap, outcome)
        IN /\ Room(1)
           /\ ctl' = [ctl EXCEPT ![1] = r.ctl]
           /\ eng' = [eng EXCEPT ![1] = r.eng]
           /\ st' = [st EXCEPT ![1] = r.st]
           /\ heap' = r.heap
           /\ last' = Call("stepOnce", r.ok, r.ctl.lastResult, 0, <<outcome>>,
                           r.stepCalls, r.doStepCalls,
                           IF r.stepCalls = 1 THEN <<r.ctl.lastResult>> ELSE <<>>)
           /\ UNCHANGED lifecycle

Controller_stepN ==
    \E outs \in OutcomeSeqs(MaxBatch) :
        LET r == stepN(ctl[1], eng[1], st[1], heap, outs)
        IN /\ Room(Len(outs))
           /\ ctl' = [ctl EXCEPT ![1] = r.ctl]
           /\ eng' = [eng EXCEPT ![1] = r.eng]
           /\ st' = [st EXCEPT ![1] = r.st]
           /\ heap' = r.heap
           /\ last' = Call("stepN", r.executed = Len(outs), r.ctl.lastResult,
                           r.executed, outs, r.stepCalls, r.doStepCalls, r.results)
           /\ UNCHANGED lifecycle

Controller_stepNList ==
    \E outs \in OutcomeSeqs(MaxBatch) :
        LET r == stepNList(ctl[1], eng[1], st[1], heap, outs)
        IN /\ Room(Len(outs))
           /\ ctl' = [ctl EXCEPT ![1] = r.ctl]
           /\ eng' = [eng EXCEPT ![1] = r.eng]
           /\ st' = [st EXCEPT ![1] = r.st]
           /\ heap' = r.heap
           /\ last' = Call("stepNList", r.executed = Len(outs), r.ctl.lastResult,
                           r.executed, outs, r.stepCalls, r.doStepCalls, r.results)
           /\ UNCHANGED lifecycle

Controller_reset ==
    LET r == StepController_reset(ctl[1], eng[1], st[1])
    IN /\ ctl' = [ctl EXCEPT ![1] = r.ctl]
       /\ eng' = [eng EXCEPT ![1] = r.eng]
       /\ st' = [st EXCEPT ![1] = r.st]
       /\ lifecycle' = IF r.ok THEN "reset" ELSE lifecycle
       /\ last' = Call("ctlReset", r.ok, r.ctl.lastResult, 0, <<>>, 0, 0, <<>>)
       /\ UNCHANGED heap

\* The parts of the state the engine specification does not use.
DetIdle == /\ script = <<>> /\ table = <<>> /\ pc = <<>> /\ log = <<>>

ToolIds == {"T1", "T2"}

\* An empty toolUsage_ map.
NoUsage == [id \in ToolIds |-> 0]

TpIdle ==
    /\ tp = <<>> /\ tpChained = TRUE /\ tp2 = <<>> /\ tpIdx = 0 /\ vres = Nil
    /\ toolUsage = NoUsage /\ tpCalls = <<>>

KinIdle == kin = Nil

GeoIdle == geo = Nil

\* After construction: one engine, one state built on no grid, an invalid
\* grid or a valid grid, and a controller built on the engine or on null.
Init ==
    /\ eng = [r \in Slots |-> SimulationEngineBase(DefaultTimeStep)]
    /\ \E g \in {0, 1}, valid \in BOOLEAN, m \in 1..MaxMaterial :
          /\ st = [r \in Slots |-> IF r = 1 THEN SimulationState(g, 0, 0) ELSE Nil]
          /\ heap = [i \in GridIds |-> IF i = 1 /\ g = 1 THEN Grid(valid, m) ELSE Nil]
          /\ (g = 0 => valid /\ m = 1)
    /\ \E engine \in BOOLEAN :
          ctl = [r \in Slots |-> StepController(IF r = 1 THEN engine ELSE TRUE)]
    /\ last = NoCall
    /\ lifecycle = "none"
    /\ DetIdle /\ TpIdle /\ KinIdle /\ GeoIdle

Next ==
    \/ Engine_initialize
    \/ Engine_step
    \/ Engine_reset
    \/ Controller_initialize
    \/ Controller_stepOnce
    \/ Controller_stepN
    \/ Controller_stepNList
    \/ Controller_reset

SimNext == Next /\ UNCHANGED <<detVars, tpVars, pureVars>>

Spec == Init /\ [][SimNext]_vars

\* ------------------------------------------------ engine lifecycle properties
StepOps == {"step", "stepOnce", "stepN", "stepNList"}

\* C1: step() on an engine that is not initialized returns a
\* SimulationInvalidState error, leaves the state's step counter and time
\* accumulator as they were, and does not invoke doStep.
C1_StepUninitializedRejected ==
    (last.op = "step" /\ ~last.preInitialized) =>
        /\ last.result.error.code = "SimulationInvalidState"
        /\ st[1].stepCount = last.preStepCount
        /\ st[1].timeAccumulator = last.preTime
        /\ last.doStepCalls = 0

\* A step() rejected on an engine that was reset after it had stepped.
C1_Witness ==
    /\ last.op = "step" /\ ~last.preInitialized
    /\ last.preLifecycle = "reset"
    /\ last.preStepCount > 0
    /\ last.preValid

\* C2: after initialize() and n >= 1 steps, a successful reset() returns the
\* state's step counter to 0 and its time accumulator to 0.
C2_ResetZeroesCounters ==
    (/\ last.op \in {"reset", "ctlReset"} /\ last.ok
     /\ last.preLifecycle = "initialize"
     /\ last.preStepCount >= 1) =>
        /\ st[1].stepCount = 0
        /\ st[1].timeAccumulator = 0

\* C3: a step executes (doStep runs, the counter grows) only if the most
\* recent successful lifecycle call was initialize(); after a successful
\* reset() the engine is uninitialized and every step is rejected with an
\* invalid-state error until initialize() succeeds again.
C3_LifecycleOrdering ==
    /\ (last.op \in StepOps /\
        (last.doStepCalls > 0 \/ st[1].stepCount > last.preStepCount))
          => last.preLifecycle = "initialize"
    /\ (last.op \in StepOps /\ last.preLifecycle = "reset") =>
          /\ last.doStepCalls = 0
          /\ st[1].stepCount = last.preStepCount
          /\ ~isSuccess(last.result) \/ last.stepCalls = 0
          /\ \A i \in 1..Len(last.results) :
                last.results[i].error.code = "SimulationInvalidState"
    /\ lifecycle = "reset" => ~eng[1].initialized
    /\ lifecycle = "initialize" => eng[1].initialized

\* A step that executed after the engine was initialized again: the engine's
\* own time was restarted while the state had already counted steps.
C3_Witness ==
    /\ last.op \in StepOps /\ last.doStepCalls >= 1
    /\ last.preLifecycle = "initialize"
    /\ eng[1].time.stepCount < st[1].stepCount

\* C5: the error step() returns while the engine is uninitialized has its
\* recoverable flag false.
C5_UninitializedErrorNotRecoverable ==
    (last.op = "step" /\ ~last.preInitialized) =>
        last.result.error.recoverable = FALSE

\* Index of the first step of a batch that does not succeed, 0 if all do.
FirstFailure(outs, initialized) ==
    IF ~initialized THEN 1
    ELSE LET bad == {i \in 1..Len(outs) : outs[i].kind # "success"}
         IN IF bad = {} THEN 0 ELSE CHOOSE i \in bad : \A j \in bad : i <= j

\* C6: both stepN overloads stop at the first step that is not a success:
\* the return value is the number of steps that succeeded before it, the
\* engine's step() is not called again after it, and the cached last result
\* is that step's result.
C6_StepNStopsAtFirstFailure ==
    (/\ last.op \in {"stepN", "stepNList"}
     /\ ctl[1].engine /\ last.preValid /\ Len(last.outs) > 0) =>
        LET f == FirstFailure(last.outs, last.preInitialized)
            n == Len(last.outs)
        IN IF f = 0
           THEN /\ last.executed = n /\ last.stepCalls = n
                /\ \A i \in 1..n : isSuccess(last.results[i])
                /\ isSuccess(ctl[1].lastResult)
           ELSE /\ last.executed = f - 1
                /\ last.stepCalls = f
                /\ Len(last.results) = f
                /\ ctl[1].lastResult = last.results[f]
                /\ ~isSuccess(last.results[f])
                /\ \A i \in 1..(f - 1) : isSuccess(last.results[i])
                /\ st[1].stepCount = last.preStepCount +
                      (IF last.preInitialized THEN f ELSE 0)

\* A two-sweep batch whose first step collided: the second sweep is never run.
C6_Witness ==
    /\ last.op = "stepNList" /\ Len(last.outs) = 2
    /\ last.preInitialized /\ last.preValid
    /\ last.outs[1].kind = "collision"
    /\ last.executed = 0 /\ last.stepCalls = 1

\* ------------------------------------------------- two independent runs
\* A ToolSweep is identified by a number; a deterministic doStep treats equal
\* sweeps equally, as table[sweep] says.
Sweeps == 1..NumSweeps

Seeds == {0, 1}

\* The calls of a run: initialize, stepN with one sweep repeated, stepN with
\* a list of sweeps.
ScriptOps ==
    { [op |-> "initialize", sweeps |-> <<>>] }
    \cup { [op |-> "stepN", sweeps |-> [i \in 1..n |-> w]] :
             w \in Sweeps, n \in 1..MaxBatch }
    \cup { [op |-> "stepNList", sweeps |-> ws] :
             ws \in UNION { [1..n -> Sweeps] : n \in 2..MaxBatch } }

\* Each StepController owns its engine: run r drives engine r.
EngineOf_Shared(r) == 1

EngineOf(r) == r

DetInit ==
    /\ eng = [r \in Slots |-> SimulationEngineBase(DefaultTimeStep)]
    /\ \E seed \in Seeds, m \in 1..MaxMaterial :
          /\ st = [r \in Slots |-> SimulationState(r, 0, seed)]
          /\ heap = [g \in GridIds |-> Grid(TRUE, m)]
    /\ ctl = [r \in Slots |-> StepController(TRUE)]
    /\ last = NoCall
    /\ lifecycle = "none"
    /\ script \in UNION { [1..n -> ScriptOps] : n \in 1..MaxScript }
    /\ table \in [Sweeps -> DoStepOutcomes]
    /\ pc = [r \in Slots |-> 0]
    /\ log = [r \in Slots |-> <<>>]
    /\ TpIdle /\ KinIdle /\ GeoIdle

\* What a run observes of one call: its return value and the StepResults.
Observed(op, ret, results, lastResult) ==
    [op |-> op, ret |-> ret, results |-> results, lastResult |-> lastResult]

DetInitialize(r) ==
    /\ pc[r] < Len(script)
    /\ script[pc[r] + 1].op = "initialize"
    /\ LET x == StepController_initialize(ctl[r], eng[EngineOf(r)], st[r], heap)
       IN /\ ctl' = [ctl EXCEPT ![r] = x.ctl]
          /\ eng' = [eng EXCEPT ![EngineOf(r)] = x.eng]
          /\ st' = [st EXCEPT ![r] = x.st]
          /\ log' = [log EXCEPT ![r] =
                       Append(@, Observed("initialize", x.ok, <<>>, x.ctl.lastResult))]
          /\ pc' = [pc EXCEPT ![r] = @ + 1]
          /\ UNCHANGED <<heap, last, lifecycle, script, table>>

DetStepN(r) ==
    /\ pc[r] < Len(script)
    /\ script[pc[r] + 1].op = "stepN"
    /\ LET sweeps == script[pc[r] + 1].sweeps
           outs == [i \in 1..Len(sweeps) |-> table[sweeps[i]]]
           x == stepN(ctl[r], eng[EngineOf(r)], st[r], heap, outs)
       IN /\ ctl' = [ctl EXCEPT ![r] = x.ctl]
          /\ eng' = [eng EXCEPT ![EngineOf(r)] = x.eng]
          /\ st' = [st EXCEPT ![r] = x.st]
          /\ heap' = x.heap
          /\ log' = [log EXCEPT ![r] =
                       Append(@, Observed("stepN", x.executed, x.results, x.ctl.lastResult))]
          /\ pc' = [pc EXCEPT ![r] = @ + 1]
          /\ UNCHANGED <<last, lifecycle, script, table>>

DetStepNList(r) ==
    /\ pc[r] < Len(script)
    /\ script[pc[r] + 1].op = "stepNList"
    /\ LET sweeps == script[pc[r] + 1].sweeps
           outs == [i \in 1..Len(sweeps) |-> table[sweeps[i]]]
           x == stepNList(ctl[r], eng[EngineOf(r)], st[r], heap, outs)
       IN /\ ctl' = [ctl EXCEPT ![r] = x.ctl]
          /\ eng' = [eng EXCEPT ![EngineOf(r)] = x.eng]
          /\ st' = [st EXCEPT ![r] = x.st]
          /\ heap' = x.heap
          /\ log' = [log EXCEPT ![r] =
                       Append(@, Observed("stepNList", x.executed, x.results, x.ctl.lastResult))]
          /\ pc' = [pc EXCEPT ![r] = @ + 1]
          /\ UNCHANGED <<last, lifecycle, script, table>>

DetNext ==
    \/ \E r \in Slots : DetInitialize(r)
    \/ \E r \in Slots : DetStepN(r)
    \/ \E r \in Slots : DetStepNList(r)

SpecDet == DetInit /\ [][DetNext /\ UNCHANGED <<tpVars, pureVars>>]_vars

\* The fields of a SimulationState with the content of its grid.
StateValue(s, h) ==
    [stepCount |-> s.stepCount, timeAccumulator |-> s.timeAccumulator,
     deterministicSeed |-> s.deterministicSeed, toolPose |-> s.toolPose,
     machineAxes |-> s.machineAxes,
     grid |-> IF s.grid = 0 THEN Nil ELSE h[s.grid]]

CopyCall(op, slot) ==
    [op |-> op, slot |-> slot,
     pre |-> [r \in Slots |-> IF st[r] = Nil THEN Nil ELSE StateValue(st[r], heap)]]

Other(r) == 3 - r

CopyInit ==
    /\ eng = [r \in Slots |-> SimulationEngineBase(DefaultTimeStep)]
    /\ \E g \in {0, 1}, valid \in BOOLEAN, m \in 1..MaxMaterial :
          /\ st = [r \in Slots |-> IF r = 1 THEN SimulationState(g, 0, 0) ELSE Nil]
          /\ heap = [i \in GridIds |-> IF i = 1 /\ g = 1 THEN Grid(valid, m) ELSE Nil]
          /\ (g = 0 => valid /\ m = 1)
    /\ ctl = [r \in Slots |-> StepController(TRUE)]
    /\ last = [op |-> "none", slot |-> 1, pre |-> [r \in Slots |-> Nil]]
    /\ lifecycle = "none"
    /\ DetIdle /\ TpIdle /\ KinIdle /\ GeoIdle

\* SimulationState copy(original);
Copy_construct ==
    /\ st[2] = Nil
    /\ \E fresh \in FreeGrids(heap) \cup (IF st[1].grid = 0 THEN {0} ELSE {}) :
          LET c == State_copy(st[1], heap, fresh)
          IN /\ st' = [st EXCEPT ![2] = c.st]
             /\ heap' = c.heap
    /\ last' = CopyCall("copy", 1)
    /\ UNCHANGED <<eng, ctl, lifecycle>>

\* SimulationState copy = original.clone();
Copy_clone ==
    /\ st[2] = Nil
    /\ \E fresh \in FreeGrids(heap) \cup (IF st[1].grid = 0 THEN {0} ELSE {}) :
          LET c == State_clone(st[1], heap, fresh)
          IN /\ st' = [st EXCEPT ![2] = c.st]
             /\ heap' = c.heap
    /\ last' = CopyCall("clone", 1)
    /\ UNCHANGED <<eng, ctl, lifecycle>>

Copy_initialize(r) ==
    /\ st[r] # Nil
    /\ LET x == initialize(eng[1], st[r], heap)
       IN /\ eng' = [eng EXCEPT ![1] = x.eng]
          /\ st' = [st EXCEPT ![r] = x.st]
    /\ last' = CopyCall("initialize", r)
    /\ UNCHANGED <<heap, ctl, lifecycle>>

Copy_step(r) ==
    /\ st[r] # Nil
    /\ st[r].stepCount < MaxSteps
    /\ \E outcome \in DoStepOutcomes :
          LET x == step(eng[1], st[r], heap, outcome)
          IN /\ eng' = [eng EXCEPT ![1] = x.eng]
             /\ st' = [st EXCEPT ![r] = x.st]
             /\ heap' = x.heap
    /\ last' = CopyCall("step", r)
    /\ UNCHANGED <<ctl, lifecycle>>

\* state.getMaterialGrid()->removeRegion(region)
Copy_removeRegion(r) ==
    /\ st[r] # Nil
    /\ st[r].grid # 0
    /\ heap' = removeRegion(heap, st[r].grid, 1)
    /\ last' = CopyCall("removeRegion", r)
    /\ UNCHANGED <<eng, st, ctl, lifecycle>>

CopyNext ==
    \/ Copy_construct
    \/ Copy_clone
    \/ \E r \in Slots : Copy_initialize(r)
    \/ \E r \in Slots : Copy_step(r)
    \/ \E r \in Slots : Copy_removeRegion(r)

SpecCopy == CopyInit /\ [][CopyNext /\ UNCHANGED <<detVars, tpVars, pureVars>>]_vars

\* C7: a state made by the copy constructor or clone() holds a grid object
\* of its own, a clone of the original's, and removing material or stepping
\* through one state leaves the other state's grid, step counter and time
\* accumulator as they were.
C7_CopyOwnsItsGrid ==
    st[2] # Nil =>
        /\ st[1].grid # 0 => (st[2].grid # 0 /\ st[2].grid # st[1].grid)
        /\ last.op \in {"copy", "clone"} =>
              StateValue(st[2], heap) = StateValue(st[1], heap)
        /\ last.op \in {"step", "removeRegion"} =>
              StateValue(st[Other(last.slot)], heap) = last.pre[Other(last.slot)]

\* Material was removed through one of the two states after the copy was
\* taken, and the two grids now differ.
C7_Witness ==
    /\ st[2] # Nil /\ st[1].grid # 0
    /\ last.op \in {"step", "removeRegion"}
    /\ heap[st[1].grid].material # heap[st[2].grid].material
    /\ st[1].stepCount # st[2].stepCount

\* ------------------------------------------------------------ common/Types.h
\* Vec3 with integer coordinates counted in ticks; Tol ticks are 1e-6.
Tol == 2

Vec3_sub(a, b) == <<a[1] - b[1], a[2] - b[2], a[3] - b[3]>>

lengthSquared(v) == v[1] * v[1] + v[2] * v[2] + v[3] * v[3]

\* length(v) > 1e-6, decided on the squares.
LengthExceedsTol(v) == lengthSquared(v) > Tol * Tol

\* |sqrt(a2) - sqrt(b2)| > 1e-6 for squared lengths a2, b2: with hi >= lo,
\* sqrt(hi) > Tol + sqrt(lo) iff hi - lo - Tol^2 > 2 Tol sqrt(lo).
RadiusErrorExceedsTol(a2, b2) ==
    LET hi == IF a2 >= b2 THEN a2 ELSE b2
        lo == IF a2 >= b2 THEN b2 ELSE a2
        d == hi - lo - Tol * Tol
    IN d > 0 /\ d * d > 4 * Tol * Tol * lo

\* length < 1e-9 (a thousandth of the tolerance), decided on the squares.
RadiusBelowMin(a2) == 1000000 * a2 < Tol * Tol

\* ----------------------------------------------------------- ToolpathState.h
\* finite = FALSE stands for a position with a NaN coordinate.
ToolpathState(position, feedRate, spindleRPM, activeToolId, finite) ==
    [position |-> position, rotaryAxes |-> <<0, 0, 0>>,
     feedRate |-> IF feedRate >= 0 THEN feedRate ELSE 0,
     spindleRPM |-> IF spindleRPM >= 0 THEN spindleRPM ELSE 0,
     activeToolId |-> activeToolId, finite |-> finite]

hasFeedRate(s) == s.feedRate > 0

isSpindleRunning(s) == s.spindleRPM > 0

hasActiveTool(s) == s.activeToolId # ""

ToolpathState_isValid(s) == s.finite

\* ---------------------------------------------------------------- MoveType.h
isCuttingMove(type) == type \in {"Linear", "ArcCW", "ArcCCW"}

isArcMove(type) == type \in {"ArcCW", "ArcCCW"}

requiresFeedrate(type) == isCuttingMove(type)

\* ------------------------------------------------------------ ToolpathMove.h
NoCenter == [none |-> TRUE]

ToolpathMove(moveType, start, end, arcCenter, dwellDuration, rapidAllowed) ==
    [moveType |-> moveType, startState |-> start, endState |-> end,
     arcCenter |-> arcCenter, dwellDuration |-> dwellDuration,
     rapidAllowed |-> rapidAllowed]

rapid(start, end) == ToolpathMove("Rapid", start, end, NoCenter, 0, TRUE)

linear(start, end) == ToolpathMove("Linear", start, end, NoCenter, 0, FALSE)

arc(arcType, start, end, center) ==
    ToolpathMove(arcType, start, end, [c |-> center], 0, FALSE)

dwell(state, duration) ==
    ToolpathMove("Dwell", state, state, NoCenter, duration, FALSE)

\* The end state is a plain copy of the start state: newToolId is not stored.
toolChange(state, newToolId) ==
    ToolpathMove("ToolChange", state, state, NoCenter, 0, FALSE)

spindleStart(state, rpm) ==
    ToolpathMove("SpindleStart", state, state, NoCenter, 0, FALSE)

spindleStop(state) ==
    ToolpathMove("SpindleStop", state, state, NoCenter, 0, FALSE)

ControlTypes == {"Dwell", "ToolChange", "SpindleStart", "SpindleStop"}

\* isValid without the rapid-allowed test.
Move_isValid_NoRapidCheck(m) ==
    IF ~ToolpathState_isValid(m.startState) \/ ~ToolpathState_isValid(m.endState)
    THEN FALSE
    ELSE IF requiresFeedrate(m.moveType) /\ ~hasFeedRate(m.endState) THEN FALSE
    ELSE IF isArcMove(m.moveType) /\ m.arcCenter = NoCenter THEN FALSE
    ELSE TRUE

Move_isValid(m) ==
    IF ~ToolpathState_isValid(m.startState) \/ ~ToolpathState_isValid(m.endState)
    THEN FALSE
    ELSE IF requiresFeedrate(m.moveType) /\ ~hasFeedRate(m.endState) THEN FALSE
    ELSE IF isArcMove(m.moveType) /\ m.arcCenter = NoCenter THEN FALSE
    ELSE IF m.moveType = "Rapid" /\ ~m.rapidAllowed THEN FALSE
    ELSE TRUE

\* delta.lengthSquared() < 1e-12; a NaN position compares false.
\* isZeroLength that compares the two positions exactly.
isZeroLength_Exact(m) ==
    IF m.moveType \in ControlTypes THEN FALSE
    ELSE IF ~m.startState.finite \/ ~m.endState.finite THEN FALSE
    ELSE m.endState.position = m.startState.position

isZeroLength(m) ==
    IF m.moveType \in ControlTypes THEN FALSE
    ELSE IF ~m.startState.finite \/ ~m.endState.finite THEN FALSE
    ELSE lengthSquared(Vec3_sub(m.endState.position, m.startState.position))
            < Tol * Tol

\* ------------------------------------------------------- ToolpathValidator.h
\* A validation outcome: ok, or the index and the kind of the logic_error.
Valid == [ok |-> TRUE, index |-> -1, kind |-> "none"]

Fail(index, kind) == [ok |-> FALSE, index |-> index, kind |-> kind]

\* validateArc without the comparison of the two radii.
validateArc_NoRadiusCheck(m, index) ==
    IF m.arcCenter = NoCenter THEN Fail(index, "arc has no center point")
    ELSE IF RadiusBelowMin(lengthSquared(Vec3_sub(m.startState.position, m.arcCenter.c)))
    THEN Fail(index, "arc has zero radius")
    ELSE Valid

validateArc(m, index) ==
    IF m.arcCenter = NoCenter THEN Fail(index, "arc has no center point")
    ELSE LET startR2 == lengthSquared(Vec3_sub(m.startState.position, m.arcCenter.c))
             endR2 == lengthSquared(Vec3_sub(m.endState.position, m.arcCenter.c))
         IN IF RadiusErrorExceedsTol(startR2, endR2)
            THEN Fail(index, "arc has inconsistent radius")
            ELSE IF RadiusBelowMin(startR2)
            THEN Fail(index, "arc has zero radius")
            ELSE Valid

validateMove(m, index) ==
    IF ~Move_isValid(m) THEN Fail(index, "is invalid")
    ELSE IF isZeroLength(m) /\ m.moveType \notin ControlTypes
    THEN Fail(index, "has zero length")
    ELSE IF requiresFeedrate(m.moveType) /\ ~hasFeedRate(m.endState)
    THEN Fail(index, "has no feedrate")
    ELSE LET a == IF isArcMove(m.moveType) THEN validateArc(m, index) ELSE Valid
         IN IF ~a.ok THEN a
            ELSE IF m.moveType = "Rapid" /\ ~m.rapidAllowed
            THEN Fail(index, "rapid is not allowed")
            ELSE Valid

\* The continuity check reporting the index of the second move.
validateContinuity_NextIndex(move1, move2, index1) ==
    IF ~move1.endState.finite \/ ~move2.startState.finite THEN Valid
    ELSE IF LengthExceedsTol(Vec3_sub(move1.endState.position,
                                      move2.startState.position))
    THEN Fail(index1 + 1, "discontinuity")
    ELSE Valid

\* distance > 1e-6; a NaN distance compares false.
validateContinuity(move1, move2, index1) ==
    IF ~move1.endState.finite \/ ~move2.startState.finite THEN Valid
    ELSE IF LengthExceedsTol(Vec3_sub(move1.endState.position,
                                      move2.startState.position))
    THEN Fail(index1, "discontinuity")
    ELSE Valid

\* ---------------------------------------------------------------- Machine.h
NoMachine == [none |-> TRUE]

NoAxis == [none |-> TRUE]

\* A machine: its axis definitions (NoAxis when getAxis returns nullptr) and
\* the RPM range of its spindle.
Machine(axes, minRPM, maxRPM) ==
    [axes |-> axes, spindle |-> [minRPM |-> minRPM, maxRPM |-> maxRPM]]

AxisRange(lo, hi) == [minPosition |-> lo, maxPosition |-> hi]

OutOfRange(v, axis) == v < axis.minPosition \/ v > axis.maxPosition

\* One linear axis of validateMachineLimits: start first, then end.
LinearAxisCheck(m, machine, index, name, k) ==
    LET axis == machine.axes[name]
    IN IF axis = NoAxis THEN Valid
       ELSE IF OutOfRange(m.startState.position[k], axis)
       THEN Fail(index, "start " \o name \o " exceeds machine limits")
       ELSE IF OutOfRange(m.endState.position[k], axis)
       THEN Fail(index, "end " \o name \o " exceeds machine limits")
       ELSE Valid

RotaryAxisCheck(m, machine, index, name, k) ==
    LET axis == machine.axes[name]
    IN IF axis = NoAxis THEN Valid
       ELSE IF OutOfRange(m.startState.rotaryAxes[k], axis)
       THEN Fail(index, "start " \o name \o " exceeds machine limits")
       ELSE IF OutOfRange(m.endState.rotaryAxes[k], axis)
       THEN Fail(index, "end " \o name \o " exceeds machine limits")
       ELSE Valid

SpindleCheck(m, machine, index) ==
    IF isSpindleRunning(m.endState) /\
       (m.endState.spindleRPM < machine.spindle.minRPM \/
        m.endState.spindleRPM > machine.spindle.maxRPM)
    THEN Fail(index, "spindle RPM exceeds machine limits")
    ELSE Valid

\* The first failing check in a list of outcomes, Valid if none fails.
RECURSIVE FirstFail(_)
FirstFail(rs) ==
    IF rs = <<>> THEN Valid
    ELSE IF ~Head(rs).ok THEN Head(rs) ELSE FirstFail(Tail(rs))

validateMachineLimits(m, machine, index) ==
    FirstFail(<<LinearAxisCheck(m, machine, index, "X", 1),
                LinearAxisCheck(m, machine, index, "Y", 2),
                LinearAxisCheck(m, machine, index, "Z", 3),
                RotaryAxisCheck(m, machine, index, "A", 1),
                RotaryAxisCheck(m, machine, index, "B", 2),
                RotaryAxisCheck(m, machine, index, "C", 3),
                SpindleCheck(m, machine, index)>>)

RECURSIVE toolConsistencyFrom(_, _)
toolConsistencyFrom(moves, i) ==
    IF i >= Len(moves) THEN Valid
    ELSE LET m == moves[i + 1]
         IN IF m.moveType = "ToolChange" /\ m.endState.activeToolId = ""
            THEN Fail(i, "tool change has no tool ID")
            ELSE IF isCuttingMove(m.moveType) /\ m.endState.activeToolId = ""
            THEN Fail(i, "cutting motion has no active tool")
            ELSE toolConsistencyFrom(moves, i + 1)

validateToolConsistency(moves, machine) == toolConsistencyFrom(moves, 0)

\* The loop of validate from move index i (0-based, as in the source).
RECURSIVE validateFrom(_, _, _)
validateFrom(moves, machine, i) ==
    IF i >= Len(moves)
    THEN IF machine # NoMachine THEN validateToolConsistency(moves, machine)
         ELSE Valid
    ELSE LET r1 == validateMove(moves[i + 1], i)
             r2 == IF i + 1 < Len(moves)
                   THEN validateContinuity(moves[i + 1], moves[i + 2], i)
                   ELSE Valid
             r3 == IF machine # NoMachine
                   THEN validateMachineLimits(moves[i + 1], machine, i)
                   ELSE Valid
         IN IF ~r1.ok THEN r1
            ELSE IF ~r2.ok THEN r2
            ELSE IF ~r3.ok THEN r3
            ELSE validateFrom(moves, machine, i + 1)

validate(moves, machine) ==
    IF moves = <<>> THEN Valid ELSE validateFrom(moves, machine, 0)

\* --------------------------------------------------------------- Toolpath.h
\* appendMove that counts the tool of the move's start state.
appendMove_CountsStartTool(moves, usage, move) ==
    [moves |-> Append(moves, move),
     toolUsage |-> IF hasActiveTool(move.startState)
                   THEN [usage EXCEPT ![move.startState.activeToolId] = @ + 1]
                   ELSE usage]

\* moves_.push_back(move); toolUsage_[toolId]++ when the end state has a tool.
appendMove(moves, usage, move) ==
    [moves |-> Append(moves, move),
     toolUsage |-> IF hasActiveTool(move.endState)
                   THEN [usage EXCEPT ![move.endState.activeToolId] = @ + 1]
                   ELSE usage]

getMoveCount(moves) == Len(moves)

getToolUsageSummary(usage) == usage

\* ------------------------------------------------- building and validating
Points == { <<0, 0, 0>>, <<1, 0, 0>>, <<3, 0, 0>>, <<0, 3, 0>> }

FeedRates == {0, 100}

StartStates == { ToolpathState(<<0, 0, 0>>, 0, 0, "T1", TRUE) }

\* The state after a motion to position p programmed with feed rate f.
MoveTo(s, p, f) == [s EXCEPT !.position = p, !.feedRate = f, !.finite = TRUE]

\* Moves that start somewhere else than where the toolpath ended.
FreeMoves ==
    LET f == ToolpathState(<<0, 3, 0>>, 100, 0, "T1", TRUE)
    IN { rapid(f, MoveTo(f, <<0, 0, 0>>, 100)), linear(f, MoveTo(f, <<3, 0, 0>>, 100)) }

\* The moves a program can chain to state s through the factory operations.
ChainedMoves(s) ==
    { rapid(s, MoveTo(s, p, s.feedRate)) : p \in Points }
    \cup { linear(s, MoveTo(s, p, f)) : p \in Points, f \in FeedRates }
    \cup { linear(s, [s EXCEPT !.finite = FALSE]) }
    \cup { arc("ArcCW", s, MoveTo(s, p, 100), <<0, 0, 0>>) : p \in Points }
    \cup { arc("ArcCCW", s, MoveTo(s, p, 100), <<1, 0, 0>>) :
             p \in {<<3, 0, 0>>, <<0, 3, 0>>} }
    \cup { arc("Rapid", s, MoveTo(s, <<3, 0, 0>>, 100), <<0, 0, 0>>) }
    \cup { dwell(s, 1), toolChange(s, "T2"), spindleStart(s, 1000), spindleStop(s) }

\* A machine with X in [0, 3], Y in [0, 2], Z in [0, 0] and no rotary axes.
TestMachine ==
    Machine([a \in {"X", "Y", "Z", "A", "B", "C"} |->
               CASE a = "X" -> AxisRange(0, 3)
                 [] a = "Y" -> AxisRange(0, 2)
                 [] a = "Z" -> AxisRange(0, 0)
                 [] OTHER -> NoAxis],
            0, 24000)

NoResult == [target |-> "none", machine |-> FALSE, res |-> Valid]

TpInit ==
    /\ eng = [r \in Slots |-> SimulationEngineBase(DefaultTimeStep)]
    /\ st = [r \in Slots |-> Nil]
    /\ heap = [g \in GridIds |-> Nil]
    /\ ctl = [r \in Slots |-> StepController(TRUE)]
    /\ last = NoCall
    /\ lifecycle = "none"
    /\ DetIdle /\ KinIdle /\ GeoIdle
    /\ tp = <<>> /\ tpChained = TRUE /\ tp2 = <<>> /\ tpIdx = 0
    /\ vres = NoResult
    /\ toolUsage = NoUsage /\ tpCalls = <<>>

\* Toolpath::appendMove; most moves start at the end state of the move
\* before them.
Tp_appendMove ==
    /\ Len(tp) < MaxMoves
    /\ \E s \in (IF tp = <<>> THEN StartStates ELSE {tp[Len(tp)].endState}) :
          \E m \in ChainedMoves(s) \cup FreeMoves :
             /\ tp' = appendMove(tp, toolUsage, m).moves
             /\ toolUsage' = appendMove(tp, toolUsage, m).toolUsage
             /\ tpChained' = (tpChained /\ (tp = <<>> \/ m.startState = tp[Len(tp)].endState))
    /\ tp2' = <<>> /\ tpIdx' = 0 /\ vres' = NoResult

\* ToolpathValidator::validate(toolpath, machine)
Tp_validate ==
    /\ \E machine \in {NoMachine, TestMachine} :
          vres' = [target |-> "toolpath", machine |-> machine # NoMachine,
                   res |-> validate(tp, machine)]
    /\ tp2' = <<>> /\ tpIdx' = 0
    /\ UNCHANGED <<tp, tpChained, toolUsage>>

\* ToolpathValidator::validateMove(toolpath.getMove(i), i)
Tp_validateMove ==
    /\ \E i \in 0..(Len(tp) - 1) :
          /\ vres' = [target |-> "move", machine |-> FALSE,
                      res |-> validateMove(tp[i + 1], i)]
          /\ tpIdx' = i
    /\ tp2' = <<>>
    /\ UNCHANGED <<tp, tpChained, toolUsage>>

\* The move with the same parameters and another end position.
WithEndPosition(m, p) == [m EXCEPT !.endState.position = p]

\* A second toolpath is built from the same moves, except that move i ends
\* at position p, and is validated.
Tp_validateChanged ==
    /\ \E i \in 0..(Len(tp) - 1), p \in Points :
          /\ p # tp[i + 1].endState.position
          /\ tp[i + 1].endState.finite
          /\ tp2' = [tp EXCEPT ![i + 1] = WithEndPosition(@, p)]
          /\ tpIdx' = i
    /\ vres' = [target |-> "changed", machine |-> FALSE,
                res |-> validate(tp2', NoMachine)]
    /\ UNCHANGED <<tp, tpChained, toolUsage>>

TpNext ==
    \/ Tp_appendMove
    \/ Tp_validate
    \/ Tp_validateMove
    \/ Tp_validateChanged

SpecTp == TpInit /\ [][TpNext /\ UNCHANGED <<simVars, detVars, pureVars, tpCalls>>]_vars

\* Every move of the toolpath passes validateMove on its own.
MovesPass(moves) == \A i \in 1..Len(moves) : validateMove(moves[i], i - 1).ok

\* The end position of move tpIdx moved by more than 1e-6 in the changed copy.
ChangedBeyondTol ==
    LengthExceedsTol(Vec3_sub(tp2[tpIdx + 1].endState.position,
                              tp[tpIdx + 1].endState.position))

\* C8 as stated: every toolpath built by chaining move endpoints is accepted
\* by validate, and changing the end position of a move that has a successor
\* by more than 1e-6 makes validate fail naming that move's index.
C8_ChainAccepted ==
    /\ (vres.target = "toolpath" /\ ~vres.machine /\ tpChained) => vres.res.ok
    /\ (vres.target = "changed" /\ tpChained /\ tpIdx + 1 < Len(tp)
        /\ ChangedBeyondTol) =>
          (~vres.res.ok /\ vres.res.index = tpIdx)

\* C8, amended: every toolpath built by chaining move endpoints from moves
\* that each pass validateMove is accepted by validate, and changing the end
\* position of a move of it that has a successor by more than 1e-6 makes
\* validate fail naming that move's index.
C8_ValidChainAccepted ==
    /\ (vres.target = "toolpath" /\ ~vres.machine /\ tpChained /\ MovesPass(tp))
          => vres.res.ok
    /\ (vres.target = "changed" /\ tpChained /\ MovesPass(tp)
        /\ tpIdx + 1 < Len(tp) /\ ChangedBeyondTol) =>
          (~vres.res.ok /\ vres.res.index = tpIdx)

\* A chained toolpath of valid moves whose changed copy is rejected for the
\* discontinuity after the changed move.
C8_Witness ==
    /\ vres.target = "changed" /\ tpChained /\ MovesPass(tp)
    /\ Len(tp) >= 2 /\ tpIdx + 1 < Len(tp)
    /\ ChangedBeyondTol
    /\ validate(tp, NoMachine).ok
    /\ vres.res = Fail(tpIdx, "discontinuity")

\* The squared radii of the arc move that validateMove was last called on.
ArcMove == tp[tpIdx + 1]

StartR2 == lengthSquared(Vec3_sub(ArcMove.startState.position, ArcMove.arcCenter.c))

EndR2 == lengthSquared(Vec3_sub(ArcMove.endState.position, ArcMove.arcCenter.c))

ArcChecked == vres.target = "move" /\ isArcMove(ArcMove.moveType)

\* C9 as stated: an arc whose start and end radii differ by more than 1e-6
\* fails validation, and every arc with equal radii and an end-state feed
\* rate > 0 passes.
C9_ArcInvariant ==
    ArcChecked =>
        /\ (ArcMove.startState.finite /\ ArcMove.endState.finite
            /\ RadiusErrorExceedsTol(StartR2, EndR2)) => ~vres.res.ok
        /\ (ArcMove.startState.finite /\ ArcMove.endState.finite
            /\ StartR2 = EndR2 /\ ArcMove.endState.feedRate > 0) => vres.res.ok

\* C9, amended: an arc whose start and end radii differ by more than 1e-6
\* fails validation, and every arc with finite start and end states, start
\* and end positions that are not within 1e-6 of each other, equal radii and
\* an end-state feed rate > 0 passes.
C9_ArcInvariantNonZeroLength ==
    ArcChecked =>
        /\ (ArcMove.startState.finite /\ ArcMove.endState.finite
            /\ RadiusErrorExceedsTol(StartR2, EndR2)) => ~vres.res.ok
        /\ (ArcMove.startState.finite /\ ArcMove.endState.finite
            /\ ~isZeroLength(ArcMove)
            /\ StartR2 = EndR2 /\ ArcMove.endState.feedRate > 0) => vres.res.ok

\* A quarter circle of radius 3 about the origin passed validateMove.
C9_Witness ==
    /\ ArcChecked
    /\ ArcMove.startState.position = <<3, 0, 0>>
    /\ ArcMove.endState.position = <<0, 3, 0>>
    /\ StartR2 = 9 /\ EndR2 = 9
    /\ ArcMove.endState.feedRate > 0
    /\ vres.res.ok

\* ------------------------------------------------------------- Transform.h
Quaternion_identity == <<1, 0, 0, 0>>

\* Transform(): zero position, identity rotation.
Transform_identity == [position |-> <<0, 0, 0>>, rotation |-> Quaternion_identity]

Sign(n) == IF n > 0 THEN 1 ELSE IF n < 0 THEN -1 ELSE 0

\* w*w + x*x + y*y + z*z, the square of magnitude()
magnitudeSquared(q) == q[1] * q[1] + q[2] * q[2] + q[3] * q[3] + q[4] * q[4]

\* normalized() for quaternions with at most one non-zero component, whose
\* magnitude is the absolute value of that component: each component divided
\* by the magnitude, identity for the zero quaternion.
normalized(q) ==
    IF magnitudeSquared(q) = 0 THEN Quaternion_identity
    ELSE <<Sign(q[1]), Sign(q[2]), Sign(q[3]), Sign(q[4])>>

conjugate(q) == <<q[1], -q[2], -q[3], -q[4]>>

\* Quaternion::operator*
Quaternion_mul(a, b) ==
    << a[1] * b[1] - a[2] * b[2] - a[3] * b[3] - a[4] * b[4],
       a[1] * b[2] + a[2] * b[1] + a[3] * b[4] - a[4] * b[3],
       a[1] * b[3] - a[2] * b[4] + a[3] * b[1] + a[4] * b[2],
       a[1] * b[4] + a[2] * b[3] - a[3] * b[2] + a[4] * b[1] >>

rotate(q, v) ==
    LET result == Quaternion_mul(Quaternion_mul(q, <<0, v[1], v[2], v[3]>>), conjugate(q))
    IN <<result[2], result[3], result[4]>>

Vec3_add(a, b) == <<a[1] + b[1], a[2] + b[2], a[3] + b[3]>>

\* Transform(position, rotation): the rotation is stored normalized.
Transform(position, rotation) ==
    [position |-> position, rotation |-> normalized(rotation)]

transformPoint(T, point) == Vec3_add(T.position, rotate(T.rotation, point))

transformDirection(T, direction) == rotate(T.rotation, direction)

\* inverse() that negates the position without rotating it back.
Transform_inverse_NoRotate(T) ==
    Transform(<<-T.position[1], -T.position[2], -T.position[3]>>, conjugate(T.rotation))

Transform_inverse(T) ==
    LET invRot == conjugate(T.rotation)
        invPos == rotate(invRot, <<-T.position[1], -T.position[2], -T.position[3]>>)
    IN Transform(invPos, invRot)

\* Transform::operator*
Transform_mul(T, other) ==
    Transform(transformPoint(T, other.position),
              Quaternion_mul(T.rotation, other.rotation))

\* --------------------------------------------------------- Cartesian3Axis.h
\* limits = [x |-> <<min, max>>, y |-> ..., z |-> ...]
\* The limit test with the bounds themselves counted as outside.
OutsideLimits_Exclusive(lim, x, y, z) ==
    \/ x <= lim.x[1] \/ x >= lim.x[2]
    \/ y <= lim.y[1] \/ y >= lim.y[2]
    \/ z <= lim.z[1] \/ z >= lim.z[2]

OutsideLimits(lim, x, y, z) ==
    \/ x < lim.x[1] \/ x > lim.x[2]
    \/ y < lim.y[1] \/ y > lim.y[2]
    \/ z < lim.z[1] \/ z > lim.z[2]

\* ForwardKinematicsResult: on the out-of-limits return the axisPositions
\* member was never written; `garbage` is what it then holds.
forwardKinematics(lim, axisPositions, garbage) ==
    LET x == axisPositions[1]
        y == axisPositions[2]
        z == axisPositions[3]
    IN IF OutsideLimits(lim, x, y, z)
       THEN [toolPose |-> Transform_identity, axisPositions |-> garbage,
             valid |-> FALSE]
       ELSE [toolPose |-> Transform(<<x, y, z>>, Quaternion_identity),
             axisPositions |-> axisPositions, valid |-> TRUE]

\* Inverse kinematics that writes the target's X into the Y axis and back.
inverseKinematics_SwapXY(lim, targetPose, garbage) ==
    LET x == targetPose.position[1]
        y == targetPose.position[2]
        z == targetPose.position[3]
    IN IF OutsideLimits(lim, x, y, z) THEN <<>>
       ELSE LET fkResult == forwardKinematics(lim, <<y, x, z, 0, 0, 0>>, garbage)
            IN << [axisPositions |-> <<y, x, z, 0, 0, 0>>,
                   toolPose |-> fkResult.toolPose, valid |-> fkResult.valid] >>

\* The list of solutions: empty, or the one solution <<x, y, z, 0, 0, 0>>.
inverseKinematics(lim, targetPose, garbage) ==
    LET x == targetPose.position[1]
        y == targetPose.position[2]
        z == targetPose.position[3]
    IN IF OutsideLimits(lim, x, y, z) THEN <<>>
       ELSE LET fkResult == forwardKinematics(lim, <<x, y, z, 0, 0, 0>>, garbage)
            IN << [axisPositions |-> <<x, y, z, 0, 0, 0>>,
                   toolPose |-> fkResult.toolPose, valid |-> fkResult.valid] >>

\* ------------------------------------------------- the kinematics round trip
AxisValues == (-1)..MaxAxis

RotaryValues == {0, 1}

LimitChoices ==
    { [x |-> <<0, MaxAxis - 1>>, y |-> <<0, MaxAxis>>, z |-> <<-1, 1>>],
      [x |-> <<-1, MaxAxis>>, y |-> <<0, MaxAxis>>, z |-> <<-1, 0>>] }

\* Values an unwritten axisPositions array may hold.
GarbageArrays == { <<0, 0, 0, 0, 0, 0>>, <<7, 7, 7, 7, 7, 7>> }

NotComputed == [none |-> TRUE]

KinInit ==
    /\ eng = [r \in Slots |-> SimulationEngineBase(DefaultTimeStep)]
    /\ st = [r \in Slots |-> Nil]
    /\ heap = [g \in GridIds |-> Nil]
    /\ ctl = [r \in Slots |-> StepController(TRUE)]
    /\ last = NoCall
    /\ lifecycle = "none"
    /\ DetIdle /\ TpIdle /\ GeoIdle
    /\ \E lim \in LimitChoices, x \in AxisValues, y \in AxisValues, z \in AxisValues,
          a \in RotaryValues, c \in RotaryValues :
          kin = [limits |-> lim, p |-> <<x, y, z, a, 0, c>>, stage |-> 0,
                 fk1 |-> NotComputed, ik |-> <<>>, fk2 |-> NotComputed]

\* r1 = forwardKinematics(p)
Kin_forward ==
    /\ kin.stage = 0
    /\ \E garbage \in GarbageArrays :
          kin' = [kin EXCEPT !.stage = 1,
                             !.fk1 = forwardKinematics(kin.limits, kin.p, garbage)]

\* solutions = inverseKinematics(r1.toolPose)
Kin_inverse ==
    /\ kin.stage = 1
    /\ \E garbage \in GarbageArrays :
          kin' = [kin EXCEPT !.stage = 2,
                             !.ik = inverseKinematics(kin.limits, kin.fk1.toolPose, garbage)]

\* r2 = forwardKinematics(solutions[0].axisPositions)
Kin_forwardAgain ==
    /\ kin.stage = 2
    /\ kin.ik # <<>>
    /\ \E garbage \in GarbageArrays :
          kin' = [kin EXCEPT !.stage = 3,
                             !.fk2 = forwardKinematics(kin.limits, kin.ik[1].axisPositions, garbage)]

KinNext ==
    \/ Kin_forward
    \/ Kin_inverse
    \/ Kin_forwardAgain

SpecKin == KinInit /\ [][KinNext /\ UNCHANGED <<simVars, detVars, tpVars, geo>>]_vars

InLimits == ~OutsideLimits(kin.limits, kin.p[1], kin.p[2], kin.p[3])

\* C10 as stated: for every axis-position array p with X, Y, Z within the
\* limits, the forward kinematics of the first inverse solution of p's tool
\* pose is valid and its axisPositions reproduce all six entries of p.
C10_RoundTripAllSix ==
    (kin.stage = 3 /\ InLimits) =>
        /\ kin.fk2.valid
        /\ kin.fk2.axisPositions = kin.p

\* C10, amended: for every axis-position array p with X, Y, Z within the
\* limits, the forward kinematics of the first inverse solution of p's tool
\* pose is valid and its axisPositions reproduce X, Y and Z of p, while the
\* entries of the unused axes A, B, C are 0 whatever p held there.
C10_RoundTripXYZ ==
    /\ (kin.stage >= 2 /\ InLimits) => Len(kin.ik) = 1 /\ kin.ik[1].valid
    /\ (kin.stage = 3 /\ InLimits) =>
          /\ kin.fk2.valid
          /\ \A k \in 1..3 : kin.fk2.axisPositions[k] = kin.p[k]
          /\ \A k \in 4..6 : kin.fk2.axisPositions[k] = 0
          /\ kin.fk2.toolPose = kin.fk1.toolPose

\* A round trip completed for an in-limits p with distinct X and Y and a
\* non-zero rotary entry.
C10_Witness ==
    /\ kin.stage = 3 /\ InLimits
    /\ kin.p[1] # kin.p[2]
    /\ kin.p[4] = 1
    /\ kin.fk2.valid

\* ------------------------------------------------------------ rapid safety
\* The move that validateMove was last called on.
CheckedMove == tp[tpIdx + 1]

RapidChecked == vres.target = "move" /\ CheckedMove.moveType = "Rapid"

\* C11: validateMove accepts a Rapid move only if its stored rapid-allowed
\* flag was set when it was constructed; a Rapid move built without the flag
\* has isValid false and fails validateMove, and a toolpath holding one is
\* rejected by validate.
C11_RapidNeedsFlag ==
    /\ RapidChecked =>
          /\ vres.res.ok => CheckedMove.rapidAllowed
          /\ ~CheckedMove.rapidAllowed =>
                (~Move_isValid(CheckedMove) /\ ~vres.res.ok /\ vres.res.index = tpIdx)
    /\ (vres.target = "toolpath"
        /\ \E i \in 1..Len(tp) : tp[i].moveType = "Rapid" /\ ~tp[i].rapidAllowed)
          => ~vres.res.ok

\* A Rapid move with finite states and a non-zero length that was built
\* without the flag is rejected as invalid.
C11_Witness ==
    /\ RapidChecked
    /\ ~CheckedMove.rapidAllowed
    /\ CheckedMove.startState.finite /\ CheckedMove.endState.finite
    /\ ~isZeroLength(CheckedMove)
    /\ vres.res = Fail(tpIdx, "is invalid")

\* ------------------------------------- toolpaths validated against a machine
\* ToolpathState(position, rotaryAxes, feedRate, spindleRPM, activeToolId)
ToolpathStateRotary(position, rotaryAxes, feedRate, spindleRPM, activeToolId) ==
    [position |-> position, rotaryAxes |-> rotaryAxes,
     feedRate |-> IF feedRate >= 0 THEN feedRate ELSE 0,
     spindleRPM |-> IF spindleRPM >= 0 THEN spindleRPM ELSE 0,
     activeToolId |-> activeToolId, finite |-> TRUE]

\* A machine with X in [0, 3], Y in [0, 2], Z in [0, 0], A in [0, 1], no B
\* and C axes, and a spindle of 100..24000 RPM.
LimitMachine ==
    Machine([a \in {"X", "Y", "Z", "A", "B", "C"} |->
               CASE a = "X" -> AxisRange(0, 3)
                 [] a = "Y" -> AxisRange(0, 2)
                 [] a = "Z" -> AxisRange(0, 0)
                 [] a = "A" -> AxisRange(0, 1)
                 [] OTHER -> NoAxis],
            100, 24000)

SpindleRPMs == {0, 1000, 50000}

MachineStartStates ==
    { ToolpathStateRotary(p, <<0, 0, 0>>, 100, r, t) :
        p \in {<<0, 0, 0>>, <<5, 0, 0>>}, r \in SpindleRPMs, t \in {"", "T1"} }

\* A factory call and the move it returned.
FactoryCall(op, newToolId, move) == [op |-> op, newToolId |-> newToolId, move |-> move]

\* The factory calls a program can make with the state s it has reached.
MachineCalls(s) ==
    { FactoryCall("linear", "", linear(s, [s EXCEPT !.position = p])) :
        p \in {<<0, 0, 0>>, <<1, 0, 0>>, <<5, 0, 0>>} }
    \cup { FactoryCall("linear", "",
              linear(s, [s EXCEPT !.position = <<2, 0, 0>>, !.rotaryAxes = <<9, 0, 0>>])) }
    \cup { FactoryCall("linear", "",
              linear(s, [s EXCEPT !.position = <<3, 0, 0>>, !.spindleRPM = r])) :
              r \in SpindleRPMs }
    \cup { FactoryCall("linear", "",
              linear(s, [s EXCEPT !.position = <<2, 0, 0>>, !.activeToolId = t])) :
              t \in {"", "T2"} }
    \cup { FactoryCall("rapid", "", rapid(s, [s EXCEPT !.position = <<1, 0, 0>>])) }
    \cup { FactoryCall("toolChange", t, toolChange(s, t)) : t \in {"", "T2"} }
    \cup { LET f == ToolpathStateRotary(<<0, 2, 0>>, <<0, 0, 0>>, 100, 1000, "T1")
           IN FactoryCall("linear", "", linear(f, [f EXCEPT !.position = <<1, 0, 0>>])) }

TpmInit ==
    /\ eng = [r \in Slots |-> SimulationEngineBase(DefaultTimeStep)]
    /\ st = [r \in Slots |-> Nil]
    /\ heap = [g \in GridIds |-> Nil]
    /\ ctl = [r \in Slots |-> StepController(TRUE)]
    /\ last = NoCall
    /\ lifecycle = "none"
    /\ DetIdle /\ KinIdle /\ GeoIdle
    /\ tp = <<>> /\ tpChained = TRUE /\ tp2 = <<>> /\ tpIdx = 0
    /\ vres = NoResult
    /\ toolUsage = NoUsage /\ tpCalls = <<>>

\* A factory call followed by Toolpath::appendMove of its result.
Tpm_appendMove ==
    /\ Len(tp) < MaxMoves
    /\ \E s \in (IF tp = <<>> THEN MachineStartStates ELSE {tp[Len(tp)].endState}) :
          \E c \in MachineCalls(s) :
             /\ tp' = appendMove(tp, toolUsage, c.move).moves
             /\ toolUsage' = appendMove(tp, toolUsage, c.move).toolUsage
             /\ tpCalls' = Append(tpCalls, [op |-> c.op, newToolId |-> c.newToolId])
             /\ tpChained' = (tpChained /\ (tp = <<>> \/ c.move.startState = tp[Len(tp)].endState))
    /\ vres' = NoResult
    /\ UNCHANGED <<tp2, tpIdx>>

\* ToolpathValidator::validate(toolpath, machine)
Tpm_validate ==
    /\ \E machine \in {NoMachine, LimitMachine} :
          vres' = [target |-> "toolpath", machine |-> machine # NoMachine,
                   res |-> validate(tp, machine)]
    /\ UNCHANGED <<tp, tpChained, toolUsage, tpCalls, tp2, tpIdx>>

TpmNext ==
    \/ Tpm_appendMove
    \/ Tpm_validate

SpecTpM == TpmInit /\ [][TpmNext /\ UNCHANGED <<simVars, detVars, pureVars>>]_vars

\* ------------------------------------------------------------ machine limits
AxisNames == <<"X", "Y", "Z", "A", "B", "C">>

\* The value state s holds for axis number k of AxisNames.
AxisValue(s, k) == IF k <= 3 THEN s.position[k] ELSE s.rotaryAxes[k - 3]

StateWithinAxes(s, machine) ==
    \A k \in 1..6 :
        machine.axes[AxisNames[k]] # NoAxis =>
            ~OutOfRange(AxisValue(s, k), machine.axes[AxisNames[k]])

StateWithinRPM(s, machine) ==
    /\ s.spindleRPM >= machine.spindle.minRPM
    /\ s.spindleRPM <= machine.spindle.maxRPM

AcceptedWithMachine == vres.target = "toolpath" /\ vres.machine /\ vres.res.ok

\* C12 as stated: with a machine, validate accepts a toolpath only if every
\* axis value the machine defines, of the start and the end state of every
\* move, lies within the axis's range and the spindle RPM of the move's states
\* lies within [minRPM, maxRPM].
C12_AcceptedWithinLimits ==
    AcceptedWithMachine =>
        \A i \in 1..Len(tp) :
            /\ StateWithinAxes(tp[i].startState, LimitMachine)
            /\ StateWithinAxes(tp[i].endState, LimitMachine)
            /\ StateWithinRPM(tp[i].startState, LimitMachine)
            /\ StateWithinRPM(tp[i].endState, LimitMachine)

\* ----------------------------------------------------------- tool consistency
ValidatedWithMachine == vres.target = "toolpath" /\ vres.machine

\* A toolpath of the single move returned by toolChange(state, newToolId),
\* for a state inside the machine's limits.
SingleToolChange ==
    /\ Len(tp) = 1 /\ tpCalls[1].op = "toolChange"
    /\ validateMove(tp[1], 0).ok
    /\ validateMachineLimits(tp[1], LimitMachine, 0).ok

\* C13 as stated: with a machine, validate fails for any cutting move whose
\* end state has an empty active tool id, and a tool-change move built by
\* toolChange(state, newToolId) passes when newToolId is non-empty and fails
\* when it is empty.
C13_ToolConsistency ==
    ValidatedWithMachine =>
        /\ (\E i \in 1..Len(tp) :
               isCuttingMove(tp[i].moveType) /\ tp[i].endState.activeToolId = "")
              => ~vres.res.ok
        /\ (SingleToolChange /\ tpCalls[1].newToolId # "") => vres.res.ok
        /\ (SingleToolChange /\ tpCalls[1].newToolId = "") => ~vres.res.ok

\* ---------------------------------------------------- first-violation reporting
\* Move i (0-based) of moves has a violation of some kind.
ViolationAt(moves, machine, i) ==
    LET m == moves[i + 1]
    IN \/ ~validateMove(m, i).ok
       \/ i + 1 < Len(moves) /\ ~validateContinuity(m, moves[i + 2], i).ok
       \/ /\ machine # NoMachine
          /\ \/ ~validateMachineLimits(m, machine, i).ok
             \/ m.moveType = "ToolChange" /\ m.endState.activeToolId = ""
             \/ isCuttingMove(m.moveType) /\ m.endState.activeToolId = ""

ViolatingIndices(moves, machine) ==
    { i \in 0..(Len(moves) - 1) : ViolationAt(moves, machine, i) }

SmallestViolation(moves, machine) ==
    CHOOSE i \in ViolatingIndices(moves, machine) :
        \A j \in ViolatingIndices(moves, machine) : i <= j

ValidatedMachine == IF vres.machine THEN LimitMachine ELSE NoMachine

\* C14 as stated: validate, with or without a machine, fails exactly when
\* some move has a violation and then reports the smallest move index that
\* has a violation of any kind.
C14_SmallestIndexReported ==
    vres.target = "toolpath" =>
        /\ vres.res.ok <=> ViolatingIndices(tp, ValidatedMachine) = {}
        /\ ~vres.res.ok =>
              vres.res.index = SmallestViolation(tp, ValidatedMachine)

\* ------------------------------------------------------------- Types.h AABB
AABB(min, max) == [min |-> min, max |-> max]

\* contains with strict comparisons.
AABB_contains_Exclusive(box, point) ==
    \A k \in 1..3 : point[k] > box.min[k] /\ point[k] < box.max[k]

AABB_contains(box, point) ==
    \A k \in 1..3 : point[k] >= box.min[k] /\ point[k] <= box.max[k]

\* ------------------------------------------- Cartesian3Axis, MachineKinematics
getWorkEnvelope(lim) ==
    AABB(<<lim.x[1], lim.y[1], lim.z[1]>>, <<lim.x[2], lim.y[2], lim.z[2]>>)

isPoseReachable(lim, targetPose, garbage) ==
    LET solutions == inverseKinematics(lim, targetPose, garbage)
    IN solutions # <<>> /\ solutions[1].valid

\* --------------------------------------------- inverse kinematics of a pose
\* The limits of LimitChoices and one set with an inverted X range.
IkLimitChoices ==
    LimitChoices \cup { [x |-> <<1, 0>>, y |-> <<0, MaxAxis>>, z |-> <<-1, 1>>] }

\* Identity and a half turn about Z.
TargetRotations == { Quaternion_identity, <<0, 0, 0, 1>> }

IkInit ==
    /\ eng = [r \in Slots |-> SimulationEngineBase(DefaultTimeStep)]
    /\ st = [r \in Slots |-> Nil]
    /\ heap = [g \in GridIds |-> Nil]
    /\ ctl = [r \in Slots |-> StepController(TRUE)]
    /\ last = NoCall
    /\ lifecycle = "none"
    /\ DetIdle /\ TpIdle /\ GeoIdle
    /\ \E lim \in IkLimitChoices, x \in AxisValues, y \in AxisValues, z \in AxisValues,
          q \in TargetRotations :
          kin = [limits |-> lim, target |-> Transform(<<x, y, z>>, q), stage |-> 0,
                 solutions |-> <<>>, reachable |-> FALSE, inEnvelope |-> FALSE,
                 fk |-> NotComputed]

\* solutions = inverseKinematics(target)
Ik_inverse ==
    /\ kin.stage = 0
    /\ \E garbage \in GarbageArrays :
          kin' = [kin EXCEPT !.stage = 1,
                             !.solutions = inverseKinematics(kin.limits, kin.target, garbage)]

\* isPoseReachable(target)
Ik_isPoseReachable ==
    /\ kin.stage = 1
    /\ \E garbage \in GarbageArrays :
          kin' = [kin EXCEPT !.stage = 2,
                             !.reachable = isPoseReachable(kin.limits, kin.target, garbage)]

\* getWorkEnvelope().contains(target.getPosition())
Ik_getWorkEnvelope ==
    /\ kin.stage = 2
    /\ kin' = [kin EXCEPT !.stage = 3,
                          !.inEnvelope = AABB_contains(getWorkEnvelope(kin.limits),
                                                       kin.target.position)]

\* forwardKinematics(solutions[0].axisPositions)
Ik_forward ==
    /\ kin.stage = 3
    /\ kin.solutions # <<>>
    /\ \E garbage \in GarbageArrays :
          kin' = [kin EXCEPT !.stage = 4,
                             !.fk = forwardKinematics(kin.limits,
                                                      kin.solutions[1].axisPositions, garbage)]

IkNext ==
    \/ Ik_inverse
    \/ Ik_isPoseReachable
    \/ Ik_getWorkEnvelope
    \/ Ik_forward

SpecIk == IkInit /\ [][IkNext /\ UNCHANGED <<simVars, detVars, tpVars, geo>>]_vars

\* X, Y, Z each within the closed range of its limit.
WithinClosedLimits(lim, pos) ==
    /\ lim.x[1] <= pos[1] /\ pos[1] <= lim.x[2]
    /\ lim.y[1] <= pos[2] /\ pos[2] <= lim.y[2]
    /\ lim.z[1] <= pos[3] /\ pos[3] <= lim.z[2]

TargetWithin == WithinClosedLimits(kin.limits, kin.target.position)

\* C15: inverseKinematics returns an empty list exactly when the target
\* position is outside the axis limits, which is exactly when it is outside
\* getWorkEnvelope(); otherwise it returns one solution, marked valid, whose
\* axis positions forwardKinematics maps, validly, to the target position;
\* isPoseReachable is true exactly in that case.
C15_InverseKinematicsReachability ==
    /\ kin.stage >= 1 =>
          /\ (kin.solutions = <<>>) <=> ~TargetWithin
          /\ TargetWithin => (Len(kin.solutions) = 1 /\ kin.solutions[1].valid)
    /\ kin.stage >= 2 => (kin.reachable <=> TargetWithin)
    /\ kin.stage >= 3 => (kin.inEnvelope <=> TargetWithin)
    /\ kin.stage = 4 =>
          /\ kin.fk.valid
          /\ kin.fk.toolPose.position = kin.target.position

\* A target on the upper X limit, with a rotation, was solved and mapped
\* back to its position.
C15_Witness ==
    /\ kin.stage = 4
    /\ kin.target.position[1] = kin.limits.x[2]
    /\ kin.target.rotation # Quaternion_identity
    /\ kin.reachable /\ kin.inEnvelope
    /\ kin.fk.valid /\ kin.fk.toolPose.position = kin.target.position

\* ------------------------------------------------ forward kinematics validity
\* C16: forwardKinematics returns valid = false exactly when X, Y or Z is
\* outside its closed [min, max] range, and the validity flag and the tool
\* pose are the same whatever values the unused axes A, B, C hold.
C16_ForwardKinematicsValidity ==
    kin.stage >= 1 =>
        /\ kin.fk1.valid <=> WithinClosedLimits(kin.limits, kin.p)
        /\ \A a \in RotaryValues, b \in RotaryValues, c \in RotaryValues,
              garbage \in GarbageArrays :
              LET r == forwardKinematics(kin.limits,
                                         <<kin.p[1], kin.p[2], kin.p[3], a, b, c>>,
                                         garbage)
              IN r.valid = kin.fk1.valid /\ r.toolPose = kin.fk1.toolPose

\* A valid result for axis positions on the X limit with non-zero A and C.
C16_Witness ==
    /\ kin.stage >= 1
    /\ kin.p[1] = kin.limits.x[2]
    /\ kin.p[4] = 1 /\ kin.p[6] = 1
    /\ kin.fk1.valid
    /\ kin.fk1.toolPose = Transform(<<kin.p[1], kin.p[2], kin.p[3]>>, Quaternion_identity)

\* --------------------------------------------------------- transform algebra
Coords == (-1)..MaxCoord

\* The unit quaternions 1, -1, i, -i, j, -j, k, -k.
UnitQuaternions ==
    { <<1, 0, 0, 0>>, <<-1, 0, 0, 0>>, <<0, 1, 0, 0>>, <<0, -1, 0, 0>>,
      <<0, 0, 1, 0>>, <<0, 0, -1, 0>>, <<0, 0, 0, 1>>, <<0, 0, 0, -1>> }

\* Rotations handed to the Transform constructor: the unit quaternions and
\* two that the constructor has to normalize.
RotationInputs == UnitQuaternions \cup { <<2, 0, 0, 0>>, <<0, 0, -2, 0>> }

TestPoints == { <<0, 0, 0>>, <<1, 0, 0>>, <<0, 1, -1>>, <<1, 1, 1>> }

GeoInit ==
    /\ eng = [r \in Slots |-> SimulationEngineBase(DefaultTimeStep)]
    /\ st = [r \in Slots |-> Nil]
    /\ heap = [g \in GridIds |-> Nil]
    /\ ctl = [r \in Slots |-> StepController(TRUE)]
    /\ last = NoCall
    /\ lifecycle = "none"
    /\ DetIdle /\ TpIdle /\ KinIdle
    /\ \E x \in Coords, y \in Coords, z \in Coords, q \in RotationInputs,
          point \in TestPoints :
          geo = [T |-> Transform(<<x, y, z>>, q), point |-> point, stage |-> 0,
                 inv |-> NotComputed, right |-> NotComputed, left |-> NotComputed,
                 image |-> <<>>, back |-> <<>>]

\* inv = T.inverse()
Geo_inverse ==
    /\ geo.stage = 0
    /\ geo' = [geo EXCEPT !.stage = 1, !.inv = Transform_inverse(geo.T)]

\* right = T * inv; left = inv * T
Geo_compose ==
    /\ geo.stage = 1
    /\ geo' = [geo EXCEPT !.stage = 2,
                          !.right = Transform_mul(geo.T, geo.inv),
                          !.left = Transform_mul(geo.inv, geo.T)]

\* image = T.transformPoint(point); back = inv.transformPoint(image)
Geo_transformPoint ==
    /\ geo.stage = 2
    /\ geo' = [geo EXCEPT !.stage = 3,
                          !.image = transformPoint(geo.T, geo.point),
                          !.back = transformPoint(geo.inv,
                                                  transformPoint(geo.T, geo.point))]

GeoNext ==
    \/ Geo_inverse
    \/ Geo_compose
    \/ Geo_transformPoint

SpecGeo == GeoInit /\ [][GeoNext /\ UNCHANGED <<simVars, detVars, tpVars, kin>>]_vars

\* Quaternion dot product.
Quaternion_dot(a, b) == a[1] * b[1] + a[2] * b[2] + a[3] * b[3] + a[4] * b[4]

\* Zero position and a rotation whose dot product with identity is 1 or -1.
IsIdentityTransform(T) ==
    /\ T.position = <<0, 0, 0>>
    /\ Quaternion_dot(T.rotation, Quaternion_identity) \in {1, -1}
    /\ magnitudeSquared(T.rotation) = 1

\* C17: for every Transform T with integer translation and a rotation from
\* the unit quaternion group, T * T.inverse() and T.inverse() * T are the
\* identity transform and T.inverse() maps T.transformPoint(p) back to p.
C17_TransformInverse ==
    /\ geo.stage >= 2 => (IsIdentityTransform(geo.right) /\ IsIdentityTransform(geo.left))
    /\ geo.stage >= 3 => geo.back = geo.point

\* A transform with a translation and a quarter-group rotation about Y whose
\* image of the point differs from the point and was mapped back.
C17_Witness ==
    /\ geo.stage = 3
    /\ geo.T.position # <<0, 0, 0>>
    /\ geo.T.rotation = <<0, 0, -1, 0>>
    /\ geo.image # geo.point
    /\ rotate(geo.T.rotation, geo.point) # geo.point
    /\ geo.back = geo.point
    /\ IsIdentityTransform(geo.right) /\ IsIdentityTransform(geo.left)

\* ---------------------------------------------------------------- ToolSweep.h
\* Sweep rotations are held in units of 1/QuatScale: <<w, x, y, z>> stands
\* for the quaternion (w, x, y, z) / QuatScale, and a unit quaternion has
\* magnitudeSquared = QuatScale * QuatScale.
QuatScale == 3

Quaternion_neg(q) == <<-q[1], -q[2], -q[3], -q[4]>>

Unrepresentable == [unrepresentable |-> TRUE]

\* normalized() in the scaled units: a unit quaternion is divided by
\* magnitude 1, the zero quaternion becomes identity.
normalizedScaled(q) ==
    IF magnitudeSquared(q) = QuatScale * QuatScale THEN q
    ELSE IF magnitudeSquared(q) = 0 THEN <<QuatScale, 0, 0, 0>>
    ELSE Unrepresentable

\* sin(s * theta) / sin(theta) for s = 0 and s = 1, with sin(theta) # 0.
SinRatio(s) == s

\* slerp without the shortest-path negation.
slerp_NoNegation(q1, q2, t) ==
    LET dot == Quaternion_dot(q1, q2)
    IN IF dot * 10000 > 9995 * QuatScale * QuatScale
       THEN normalizedScaled([k \in 1..4 |-> q1[k] + (q2[k] - q1[k]) * t])
       ELSE normalizedScaled([k \in 1..4 |->
                                q1[k] * SinRatio(1 - t) + q2[k] * SinRatio(t)])

\* slerp(q1, q2, t) at the end points t = 0 and t = 1.
slerp(q1, q2, t) ==
    LET dot0 == Quaternion_dot(q1, q2)
        q2Adjusted == IF dot0 < 0 THEN Quaternion_neg(q2) ELSE q2
        dot == IF dot0 < 0 THEN -dot0 ELSE dot0
    IN IF dot * 10000 > 9995 * QuatScale * QuatScale
       THEN normalizedScaled([k \in 1..4 |-> q1[k] + (q2Adjusted[k] - q1[k]) * t])
       ELSE LET w1 == SinRatio(1 - t)
                w2 == SinRatio(t)
            IN normalizedScaled([k \in 1..4 |-> q1[k] * w1 + q2Adjusted[k] * w2])

\* Transform(position, rotation) with the rotation in the scaled units.
SweepTransform(position, rotation) ==
    [position |-> position, rotation |-> normalizedScaled(rotation)]

ToolSweep(startTransform, endTransform) ==
    [startTransform |-> startTransform, endTransform |-> endTransform]

\* std::max(0.0, std::min(1.0, t))
ClampUnit(t) == IF t < 0 THEN 0 ELSE IF t > 1 THEN 1 ELSE t

\* getTransformAt(t) for t that clamps to 0 or 1.
getTransformAt(sweep, t0) ==
    LET t == ClampUnit(t0)
        startPos == sweep.startTransform.position
        endPos == sweep.endTransform.position
        pos == [k \in 1..3 |-> startPos[k] + (endPos[k] - startPos[k]) * t]
        rot == slerp(sweep.startTransform.rotation, sweep.endTransform.rotation, t)
    IN SweepTransform(pos, rot)

\* ------------------------------------------------------- slerp at the end points
\* Unit quaternions in units of 1/3.
SlerpQuats ==
    { <<3, 0, 0, 0>>, <<-3, 0, 0, 0>>, <<0, 0, 0, 3>>, <<2, 2, 1, 0>>,
      <<2, 1, 2, 0>>, <<-1, 2, 2, 0>>, <<-2, -2, -1, 0>>, <<1, -2, 0, 2>> }

SweepParameters == {-1, 0, 1, 2}

SlerpInit ==
    /\ eng = [r \in Slots |-> SimulationEngineBase(DefaultTimeStep)]
    /\ st = [r \in Slots |-> Nil]
    /\ heap = [g \in GridIds |-> Nil]
    /\ ctl = [r \in Slots |-> StepController(TRUE)]
    /\ last = NoCall
    /\ lifecycle = "none"
    /\ DetIdle /\ TpIdle /\ KinIdle
    /\ \E q1 \in SlerpQuats, q2 \in SlerpQuats, t \in SweepParameters,
          endPos \in {<<1, 0, 0>>, <<0, 2, -1>>} :
          geo = [sweep |-> ToolSweep(SweepTransform(<<0, 0, 0>>, q1),
                                     SweepTransform(endPos, q2)),
                 t |-> t, stage |-> 0, s0 |-> <<>>, s1 |-> <<>>, at |-> NotComputed]

\* s0 = slerp(q1, q2, 0); s1 = slerp(q1, q2, 1)
Slerp_slerp ==
    /\ geo.stage = 0
    /\ geo' = [geo EXCEPT !.stage = 1,
                 !.s0 = slerp(geo.sweep.startTransform.rotation,
                              geo.sweep.endTransform.rotation, 0),
                 !.s1 = slerp(geo.sweep.startTransform.rotation,
                              geo.sweep.endTransform.rotation, 1)]

\* at = sweep.getTransformAt(t)
Slerp_getTransformAt ==
    /\ geo.stage = 1
    /\ geo' = [geo EXCEPT !.stage = 2, !.at = getTransformAt(geo.sweep, geo.t)]

SlerpNext ==
    \/ Slerp_slerp
    \/ Slerp_getTransformAt

SpecSlerp == SlerpInit /\ [][SlerpNext /\ UNCHANGED <<simVars, detVars, tpVars, kin>>]_vars

SweepQ1 == geo.sweep.startTransform.rotation

SweepQ2 == geo.sweep.endTransform.rotation

\* C18 as stated: slerp(q1, q2, 0) = q1 and slerp(q1, q2, 1) = q2 for all
\* unit quaternions, also when the dot product is negative; getTransformAt
\* of t <= 0 is the start transform and of t >= 1 the end transform.
C18_SlerpBoundary ==
    /\ geo.stage >= 1 => (geo.s0 = SweepQ1 /\ geo.s1 = SweepQ2)
    /\ geo.stage = 2 =>
          /\ geo.t <= 0 => geo.at = geo.sweep.startTransform
          /\ geo.t >= 1 => geo.at = geo.sweep.endTransform

\* C18, amended: slerp(q1, q2, 0) = q1; slerp(q1, q2, 1) = q2 when the dot
\* product of q1 and q2 is not negative and -q2, the same rotation, when it
\* is negative; getTransformAt of t <= 0 is the start transform, and of
\* t >= 1 it has the end position and the end rotation, negated exactly when
\* the dot product of the start and end rotations is negative.
C18_SlerpBoundaryUpToSign ==
    LET q2Signed == IF Quaternion_dot(SweepQ1, SweepQ2) < 0
                    THEN Quaternion_neg(SweepQ2) ELSE SweepQ2
    IN /\ geo.stage >= 1 => (geo.s0 = SweepQ1 /\ geo.s1 = q2Signed)
       /\ geo.stage = 2 =>
             /\ geo.t <= 0 => geo.at = geo.sweep.startTransform
             /\ geo.t >= 1 =>
                   /\ geo.at.position = geo.sweep.endTransform.position
                   /\ geo.at.rotation = q2Signed

\* The spherical branch with a negative dot product, evaluated beyond t = 1.
C18_Witness ==
    /\ geo.stage = 2 /\ geo.t = 2
    /\ Quaternion_dot(SweepQ1, SweepQ2) < 0
    /\ -Quaternion_dot(SweepQ1, SweepQ2) * 10000 <= 9995 * QuatScale * QuatScale
    /\ geo.s0 = SweepQ1
    /\ geo.at.rotation = Quaternion_neg(SweepQ2)
    /\ geo.at.position = geo.sweep.endTransform.position

\* -------------------------------------------------- Tool.h, ToolHolder.h
\* A tool as the holder sees it: its overall length and whether isValid().
Tool(overallLength, valid) == [overallLength |-> overallLength, valid |-> valid]

ToolHolder(tool, holderLength, holderOffset) ==
    [tool |-> tool,
     holderLength |-> IF holderLength > 0 THEN holderLength ELSE 0,
     holderOffset |-> holderOffset]

ToolHolder_isValid(h) == h.tool.valid /\ h.holderLength > 0

getTotalLength(h) == h.holderLength + h.tool.overallLength

Vec3_scale(v, k) == <<v[1] * k, v[2] * k, v[3] * k>>

\* ToolHolder::computeToolTipPose
Holder_computeToolTipPose(h, spindlePose) ==
    LET offsetPos == transformPoint(spindlePose, h.holderOffset)
        toolPose == Transform(offsetPos, spindlePose.rotation)
        downDirection == transformDirection(toolPose, <<0, 0, -1>>)
        toolTipPos == Vec3_add(toolPose.position,
                               Vec3_scale(downDirection, getTotalLength(h)))
    IN Transform(toolTipPos, toolPose.rotation)

\* ------------------------------------------------------------- ToolMount.h
NoHolder == [none |-> TRUE]

\* attachTool: the holder is taken only if it is valid.
attachTool(mount, h) == IF ToolHolder_isValid(h) THEN h ELSE mount

detachTool(mount) == NoHolder

hasTool(mount) == mount # NoHolder

Mount_computeToolTipPose(mount, spindlePose) ==
    IF mount # NoHolder THEN Holder_computeToolTipPose(mount, spindlePose)
    ELSE spindlePose

\* -------------------------------------------------------- MachineWithTool.h
\* kinematics_ is a Cartesian3Axis with limits lim (never null here).
\* forwardKinematics of the kinematics, then the mount's tool-tip pose.
computeToolTipPose(lim, mount, axisPositions, garbage) ==
    LET fkResult == forwardKinematics(lim, axisPositions, garbage)
    IN IF ~fkResult.valid THEN Transform_identity
       ELSE Mount_computeToolTipPose(mount, fkResult.toolPose)

computeInverseKinematics(lim, mount, targetToolTipPose, garbage) ==
    LET targetSpindlePose ==
            IF hasTool(mount)
            THEN LET totalLength == getTotalLength(mount)
                     holderOffset == mount.holderOffset
                     upDirection == transformDirection(targetToolTipPose, <<0, 0, 1>>)
                     spindlePos == Vec3_sub(targetToolTipPose.position,
                                            Vec3_scale(upDirection, totalLength))
                     offsetPos == Vec3_sub(spindlePos, holderOffset)
                 IN Transform(offsetPos, targetToolTipPose.rotation)
            ELSE targetToolTipPose
    IN inverseKinematics(lim, targetSpindlePose, garbage)

\* ------------------------------------------------ tool-tip pose and its inverse
MwtLimitChoices ==
    { [x |-> <<-1, MaxAxis>>, y |-> <<0, MaxAxis>>, z |-> <<-1, 1>>],
      [x |-> <<-1, MaxAxis + 1>>, y |-> <<0, MaxAxis>>, z |-> <<-6, MaxAxis>>] }

HolderChoices ==
    { ToolHolder(Tool(1, TRUE), 1, <<0, 0, 0>>),
      ToolHolder(Tool(1, TRUE), 1, <<1, 0, 0>>),
      ToolHolder(Tool(1, TRUE), 0, <<0, 0, 0>>),
      ToolHolder(Tool(1, FALSE), 1, <<0, 0, 0>>) }

MwtInit ==
    /\ eng = [r \in Slots |-> SimulationEngineBase(DefaultTimeStep)]
    /\ st = [r \in Slots |-> Nil]
    /\ heap = [g \in GridIds |-> Nil]
    /\ ctl = [r \in Slots |-> StepController(TRUE)]
    /\ last = NoCall
    /\ lifecycle = "none"
    /\ DetIdle /\ TpIdle /\ GeoIdle
    /\ \E lim \in MwtLimitChoices, x \in AxisValues, y \in AxisValues, z \in AxisValues,
          a \in RotaryValues :
          kin = [limits |-> lim, mount |-> NoHolder, p |-> <<x, y, z, a, 0, 0>>,
                 stage |-> 0, tip |-> NotComputed, spindle |-> NotComputed,
                 solutions |-> <<>>]

\* machine.getToolMount().attachTool(holder)
Mwt_attachTool ==
    /\ kin.stage = 0
    /\ \E h \in HolderChoices : kin' = [kin EXCEPT !.mount = attachTool(kin.mount, h)]

\* machine.getToolMount().detachTool()
Mwt_detachTool ==
    /\ kin.stage = 0
    /\ kin.mount # NoHolder
    /\ kin' = [kin EXCEPT !.mount = detachTool(kin.mount)]

\* tip = machine.computeToolTipPose(p); spindle is the pose of the kinematics
Mwt_computeToolTipPose ==
    /\ kin.stage = 0
    /\ \E garbage \in GarbageArrays :
          kin' = [kin EXCEPT !.stage = 1,
                     !.tip = computeToolTipPose(kin.limits, kin.mount, kin.p, garbage),
                     !.spindle = forwardKinematics(kin.limits, kin.p, garbage).toolPose]

\* solutions = machine.computeInverseKinematics(tip)
Mwt_computeInverseKinematics ==
    /\ kin.stage = 1
    /\ \E garbage \in GarbageArrays :
          kin' = [kin EXCEPT !.stage = 2,
                     !.solutions = computeInverseKinematics(kin.limits, kin.mount,
                                                            kin.tip, garbage)]

MwtNext ==
    \/ Mwt_attachTool
    \/ Mwt_detachTool
    \/ Mwt_computeToolTipPose
    \/ Mwt_computeInverseKinematics

SpecMwt == MwtInit /\ [][MwtNext /\ UNCHANGED <<simVars, detVars, tpVars, geo>>]_vars

\* C19 as stated: with or without a mounted tool holder, for every in-limit
\* axis position p the first solution of
\* computeInverseKinematics(computeToolTipPose(p)) has X, Y, Z equal to p,
\* and with no tool mounted the tool-tip pose is the spindle pose.
C19_ToolMountInverse ==
    /\ (kin.stage >= 1 /\ kin.mount = NoHolder) => kin.tip = kin.spindle
    /\ (kin.stage = 2 /\ WithinClosedLimits(kin.limits, kin.p)) =>
          /\ kin.solutions # <<>>
          /\ \A k \in 1..3 : kin.solutions[1].axisPositions[k] = kin.p[k]

\* ------------------------------------------------- append-only toolpath
\* The number of stored moves whose end state has active tool id.
MovesWithTool(moves, id) ==
    Cardinality({ i \in 1..Len(moves) : moves[i].endState.activeToolId = id })

HistogramMatchesMoves ==
    /\ \A id \in ToolIds :
          getToolUsageSummary(toolUsage)[id] = MovesWithTool(tp, id)
    /\ getMoveCount(tp) = Len(tpCalls)
    /\ \A i \in 1..Len(tp) : tp[i].endState.activeToolId \in ToolIds \cup {""}

\* A change of the stored moves adds one move at the end and keeps the rest.
MovesOnlyAppended ==
    tp' # tp =>
        /\ getMoveCount(tp') = getMoveCount(tp) + 1
        /\ \A i \in 1..Len(tp) : tp'[i] = tp[i]
        /\ Len(tpCalls') = Len(tpCalls) + 1

\* C20: after any sequence of appendMove calls the stored moves are the
\* appended moves in call order (a call adds one move at the end and leaves
\* the earlier ones as they were), and for every tool id the usage summary is
\* the number of stored moves whose end state has that active tool id, moves
\* without an active tool being counted nowhere.
C20_AppendOnlyHistogram == []HistogramMatchesMoves /\ [][MovesOnlyAppended]_vars

\* Two appended moves, the first without an active tool, the second with
\* tool T2: only T2 is counted, once.
C20_Witness ==
    /\ Len(tp) = 2
    /\ tp[1].endState.activeToolId = ""
    /\ tp[2].endState.activeToolId = "T2"
    /\ tp[2].startState.activeToolId = ""
    /\ toolUsage["T1"] = 0 /\ toolUsage["T2"] = 1

\* ------------------------------------------------------------------------
\* WorkOffset.h / WorkpieceMount.h: the work offsets of a mount
\* ------------------------------------------------------------------------

\* enum class WorkOffsetId, the first three of its nine values.
WorkOffsetIds == {"G54", "G55", "G56"}

\* WorkOffset(id, translation, rotation = Quaternion::identity())
WorkOffset(id, translation) ==
    [id |-> id, transform |-> Transform(translation, Quaternion_identity)]

\* std::nullopt, and an id with no entry in workOffsets_.
NoOffset == <<>>

\* WorkpieceMount(): no workpiece, no offsets, G54 active.
WorkpieceMount ==
    [activeWorkpiece |-> FALSE,
     workOffsets |-> [id \in WorkOffsetIds |-> NoOffset],
     activeOffsetId |-> "G54"]

\* A setWorkOffset that also selects the offset it stores.
setWorkOffset_Activates(m, offset) ==
    [m EXCEPT !.workOffsets[offset.id] = offset, !.activeOffsetId = offset.id]

\* workOffsets_[offset.getId()] = offset
setWorkOffset(m, offset) ==
    [m EXCEPT !.workOffsets[offset.id] = offset]

getWorkOffset(m, id) == m.workOffsets[id]

setActiveWorkOffset(m, id) == [m EXCEPT !.activeOffsetId = id]

getActiveWorkOffsetId(m) == m.activeOffsetId

getActiveWorkOffset(m) == getWorkOffset(m, m.activeOffsetId)

\* ------------------------------------------------------------------------
\* SpecWork: a mount under setWorkOffset, setActiveWorkOffset and
\* getActiveWorkOffset
\* ------------------------------------------------------------------------

OffsetTranslations == {<<x, 0, z>> : x \in {0, MaxCoord}, z \in {0, -1}}

WorkCall(op, pre, arg, result) ==
    [op |-> op, pre |-> pre, arg |-> arg, result |-> result]

WorkInit ==
    /\ eng = [r \in Slots |-> SimulationEngineBase(DefaultTimeStep)]
    /\ st = [r \in Slots |-> Nil]
    /\ heap = [g \in GridIds |-> Nil]
    /\ ctl = [r \in Slots |-> StepController(TRUE)]
    /\ last = NoCall
    /\ lifecycle = "none"
    /\ DetIdle /\ TpIdle /\ KinIdle
    /\ geo = [mount |-> WorkpieceMount,
              call |-> WorkCall("construct", WorkpieceMount, NoOffset, NoOffset)]

\* mount.setWorkOffset(WorkOffset(id, translation))
Work_setWorkOffset ==
    \E id \in WorkOffsetIds, t \in OffsetTranslations :
        geo' = [mount |-> setWorkOffset(geo.mount, WorkOffset(id, t)),
                call |-> WorkCall("setWorkOffset", geo.mount, WorkOffset(id, t),
                                  NoOffset)]

\* mount.setActiveWorkOffset(id)
Work_setActiveWorkOffset ==
    \E id \in WorkOffsetIds :
        geo' = [mount |-> setActiveWorkOffset(geo.mount, id),
                call |-> WorkCall("setActiveWorkOffset", geo.mount, id, NoOffset)]

\* result = mount.getActiveWorkOffset()
Work_getActiveWorkOffset ==
    geo' = [mount |-> geo.mount,
            call |-> WorkCall("getActiveWorkOffset", geo.mount, NoOffset,
                              getActiveWorkOffset(geo.mount))]

WorkNext ==
    \/ Work_setWorkOffset
    \/ Work_setActiveWorkOffset
    \/ Work_getActiveWorkOffset

SpecWork == WorkInit /\ [][WorkNext /\ UNCHANGED <<simVars, detVars, tpVars, kin>>]_vars

\* C21: exactly one offset id is active; setWorkOffset for one id leaves the
\* offsets stored for every other id and the active id as they were; and
\* getActiveWorkOffset() returns the offset stored for the active id.
C21_OneActiveOffset ==
    /\ Cardinality({id \in WorkOffsetIds : getActiveWorkOffsetId(geo.mount) = id}) = 1
    /\ geo.call.op = "setWorkOffset" =>
          /\ \A id \in WorkOffsetIds \ {geo.call.arg.id} :
                getWorkOffset(geo.mount, id) = getWorkOffset(geo.call.pre, id)
          /\ getWorkOffset(geo.mount, geo.call.arg.id) = geo.call.arg
          /\ getActiveWorkOffsetId(geo.mount) = getActiveWorkOffsetId(geo.call.pre)
    /\ geo.call.op = "getActiveWorkOffset" =>
          geo.call.result = geo.mount.workOffsets[geo.mount.activeOffsetId]

\* An offset was stored for an id that is not the active one while another
\* id already had an offset.
C21_Witness ==
    /\ geo.call.op = "setWorkOffset"
    /\ geo.call.arg.id # geo.mount.activeOffsetId
    /\ geo.mount.activeOffsetId # "G54"
    /\ \E id \in WorkOffsetIds \ {geo.call.arg.id} :
          geo.call.pre.workOffsets[id] # NoOffset

\* ------------------------------------------------------------------------
\* SpecEng: one engine called directly on two states, each built on no
\* grid, on an invalid grid or on a valid grid
\* ------------------------------------------------------------------------

TimeSteps == {0, 2 * DefaultTimeStep}

\* The grid a state is built on: none, one that reports itself invalid, or
\* a valid one holding m units of material.
GridChoices ==
    { [grid |-> FALSE, valid |-> TRUE, material |-> 1],
      [grid |-> TRUE, valid |-> FALSE, material |-> 1] }
    \cup { [grid |-> TRUE, valid |-> TRUE, material |-> m] : m \in 1..MaxMaterial }

\* The record kept of the most recent call on the engine, with the engine,
\* the state and the grids as they were before it, and the call before it.
EngCall(op, slot, result, doStepCalls) ==
    [op |-> op, slot |-> slot, result |-> result, doStepCalls |-> doStepCalls,
     preEng |-> eng[1], preSt |-> st, preHeap |-> heap,
     prevOp |-> last.op, prevSlot |-> last.slot, prevResult |-> last.result]

EngInit ==
    /\ \E dt \in TimeSteps : eng = [r \in Slots |-> SimulationEngineBase(dt)]
    /\ \E c \in [Slots -> GridChoices], seed \in {0, 7} :
          /\ st = [r \in Slots |->
                     SimulationState(IF c[r].grid THEN r ELSE 0, r, seed)]
          /\ heap = [g \in GridIds |->
                       IF c[g].grid THEN Grid(c[g].valid, c[g].material) ELSE Nil]
          /\ c[2].material = 1
    /\ ctl = [r \in Slots |-> StepController(TRUE)]
    /\ last = [op |-> "none", slot |-> 1, result |-> StepResult_success,
               doStepCalls |-> 0,
               preEng |-> SimulationEngineBase(DefaultTimeStep),
               preSt |-> [r \in Slots |-> Nil], preHeap |-> [g \in GridIds |-> Nil],
               prevOp |-> "none", prevSlot |-> 1, prevResult |-> StepResult_success]
    /\ lifecycle = "none"
    /\ DetIdle /\ TpIdle /\ KinIdle /\ GeoIdle

\* engine.initialize(state[r])
Eng_initialize(r) ==
    LET x == initialize(eng[1], st[r], heap)
    IN /\ eng' = [eng EXCEPT ![1] = x.eng]
       /\ st' = [st EXCEPT ![r] = x.st]
       /\ last' = EngCall("initialize", r, ErrorResult(x.error), 0)
       /\ UNCHANGED <<heap, ctl, lifecycle>>

\* engine.step(state[r], sweep)
Eng_step(r) ==
    /\ st[r].stepCount < MaxSteps
    /\ eng[1].time.stepCount < 2 * MaxSteps
    /\ \E outcome \in DoStepOutcomes :
          LET x == step(eng[1], st[r], heap, outcome)
          IN /\ eng' = [eng EXCEPT ![1] = x.eng]
             /\ st' = [st EXCEPT ![r] = x.st]
             /\ heap' = x.heap
             /\ last' = EngCall("step", r, x.result, x.doStepCalls)
    /\ UNCHANGED <<ctl, lifecycle>>

\* engine.reset(state[r])
Eng_reset(r) ==
    LET x == reset(eng[1], st[r])
    IN /\ eng' = [eng EXCEPT ![1] = x.eng]
       /\ st' = [st EXCEPT ![r] = x.st]
       /\ last' = EngCall("reset", r, ErrorResult(x.error), 0)
       /\ UNCHANGED <<heap, ctl, lifecycle>>

\* SimulationState& operator=(const SimulationState& other), this != &other:
\* the fields are copied; when other has a grid, a clone of it stored at
\* `fresh` replaces the grid of a, which is destroyed; when other has none,
\* materialGrid_ of a is not assigned.
State_assign(a, other, h, fresh) ==
    IF other.grid # 0
    THEN [st |-> [other EXCEPT !.grid = fresh],
          heap |-> [g \in GridIds |->
                      IF g = fresh THEN h[other.grid]
                      ELSE IF g = a.grid THEN Nil
                      ELSE h[g]]]
    ELSE [st |-> [other EXCEPT !.grid = a.grid], heap |-> h]

\* state[r] = state[Other(r)]
Eng_assign(r) ==
    /\ \E fresh \in IF st[r].grid # 0 THEN {st[r].grid} ELSE FreeGrids(heap) :
          LET x == State_assign(st[r], st[Other(r)], heap, fresh)
          IN /\ st' = [st EXCEPT ![r] = x.st]
             /\ heap' = x.heap
    /\ last' = EngCall("assign", r, StepResult_success, 0)
    /\ UNCHANGED <<eng, ctl, lifecycle>>

EngNext ==
    \/ \E r \in Slots : Eng_initialize(r)
    \/ \E r \in Slots : Eng_step(r)
    \/ \E r \in Slots : Eng_reset(r)

SpecEng == EngInit /\ [][EngNext /\ UNCHANGED <<detVars, tpVars, pureVars>>]_vars

\* The state the last call was made on was valid when the call was made.
PreValid == State_isValid(last.preSt[last.slot], last.preHeap)

\* C22: initialize(state) on a state that is not valid fails with the
\* SimulationInvalidState error and leaves the engine as it was; on a valid
\* state it succeeds, the engine is initialized and its internal accumulated
\* time and step count are zero.
C22_InitializeValidatesState ==
    last.op = "initialize" =>
        IF PreValid
        THEN /\ isSuccess(last.result)
             /\ eng[1].initialized
             /\ eng[1].time.accumulatedTime = 0
             /\ eng[1].time.stepCount = 0
        ELSE /\ hasError(last.result)
             /\ last.result.error.code = "SimulationInvalidState"
             /\ eng[1] = last.preEng

\* initialize failed on an invalid state while the engine was initialized
\* and had stepped.
C22_Witness ==
    /\ last.op = "initialize"
    /\ ~PreValid
    /\ last.preEng.initialized
    /\ last.preEng.time.stepCount > 0

\* The fixed time step of the engine.
Dt == eng[1].time.fixedTimeStep

CollisionStep == last.op = "step" /\ last.result.collisionDetected

\* The last call was a step() on the state on which the call before it was
\* a step() that returned a collision.
StepAfterCollision ==
    /\ last.op = "step"
    /\ last.prevOp = "step" /\ last.prevSlot = last.slot
    /\ last.prevResult.collisionDetected

\* C25: StepResult::collision() has collisionDetected set and a recoverable
\* error; a step that returns a collision leaves the engine initialized; and
\* the step() that follows it on the same engine and state is executed:
\* doStep is called and the step counter is incremented.
C25_CollisionRecoverable ==
    /\ StepResult_collision.collisionDetected
    /\ StepResult_collision.error.recoverable
    /\ CollisionStep =>
          /\ last.result.error.recoverable
          /\ ~isSuccess(last.result)
          /\ eng[1].initialized = last.preEng.initialized
          /\ eng[1].initialized
    /\ StepAfterCollision =>
          /\ last.doStepCalls = 1
          /\ st[last.slot].stepCount = last.preSt[last.slot].stepCount + 1
          /\ last.result.error.code # "SimulationInvalidState"

\* A step returned a collision and the next step on the same state succeeded.
C25_Witness ==
    /\ StepAfterCollision
    /\ isSuccess(last.result)
    /\ last.doStepCalls = 1

\* C30: with the default doInitialize hook, initialize(state) leaves every
\* field of the state (step counter, time accumulator, seed, tool pose,
\* machine axes, material grid and its content) as it was, whether it
\* succeeds or fails; of the engine only the initialized flag and the
\* internal time may change.
C30_InitializeFrame ==
    last.op = "initialize" =>
        /\ st = last.preSt
        /\ heap = last.preHeap
        /\ eng[1].time.fixedTimeStep = last.preEng.time.fixedTimeStep

\* initialize succeeded on a state that had been stepped and had material
\* removed, on an engine whose internal time was not zero.
C30_Witness ==
    /\ last.op = "initialize"
    /\ isSuccess(last.result)
    /\ st[last.slot].stepCount > 0
    /\ heap[st[last.slot].grid].material = 0
    /\ last.preEng.time.accumulatedTime > 0

\* ------------------------------------------------------------------------
\* StepController.h: the cached last result
\* ------------------------------------------------------------------------

lastStepSucceeded(c) == isSuccess(c.lastResult)

lastStepHadCollision(c) == c.lastResult.collisionDetected

lastStepHadError(c) == hasError(c.lastResult)

\* The cached last result describes a failure.
FailureCached ==
    /\ ~lastStepSucceeded(ctl[1])
    /\ lastStepHadError(ctl[1]) \/ lastStepHadCollision(ctl[1])

\* C24: after a StepController call that fails (initialize, stepOnce or
\* reset returning false, or stepN executing fewer steps than requested
\* because the engine is null or the state is invalid) the cached last
\* result describes the failure: lastStepSucceeded() is false and
\* lastStepHadError() or lastStepHadCollision() is true.
C24_NoSwallowedFailure ==
    /\ (last.op \in {"ctlInitialize", "stepOnce", "ctlReset"} /\ ~last.ok) =>
          FailureCached
    /\ (/\ last.op \in {"stepN", "stepNList"}
        /\ last.executed < Len(last.outs)
        /\ ~ctl[1].engine \/ ~last.preValid) =>
          FailureCached

\* The start and end positions of move m coincide: both states are finite
\* and the squared distance between the positions is below 1e-12.
PositionsCoincide(m) ==
    /\ m.startState.finite /\ m.endState.finite
    /\ lengthSquared(Vec3_sub(m.endState.position, m.startState.position)) < Tol * Tol

MotionTypes == {"Rapid", "Linear", "ArcCW", "ArcCCW"}

\* C26: validateMove and validate reject every Rapid, Linear, ArcCW or
\* ArcCCW move whose start and end positions coincide, and a Dwell,
\* ToolChange, SpindleStart or SpindleStop move with finite states, whose
\* start and end positions are the same, is never rejected by validateMove.
C26_ZeroLengthRejected ==
    /\ (vres.target = "move" /\ CheckedMove.moveType \in MotionTypes
        /\ PositionsCoincide(CheckedMove)) =>
          (~vres.res.ok /\ vres.res.index = tpIdx)
    /\ (vres.target = "toolpath"
        /\ \E i \in 1..Len(tp) :
              tp[i].moveType \in MotionTypes /\ PositionsCoincide(tp[i])) =>
          ~vres.res.ok
    /\ (vres.target = "move" /\ CheckedMove.moveType \in ControlTypes) =>
          /\ vres.res.kind # "has zero length"
          /\ PositionsCoincide(CheckedMove) => vres.res.ok

\* A Rapid move built with the rapid flag whose end lies 5e-7 from its start
\* was rejected for its length.
C26_Witness ==
    /\ vres.target = "move"
    /\ CheckedMove.moveType = "Rapid" /\ CheckedMove.rapidAllowed
    /\ CheckedMove.endState.position # CheckedMove.startState.position
    /\ PositionsCoincide(CheckedMove)
    /\ vres.res = Fail(tpIdx, "has zero length")

\* ------------------------------------------------------------------------
\* Axis.h: AxisDefinition
\* ------------------------------------------------------------------------

\* The default resolution 0.001; resolutions are counted in thousandths.
DefaultResolution == 1

\* AxisDefinition(type, minPosition, maxPosition, maxVelocity,
\* maxAcceleration, resolution): a non-positive velocity or acceleration
\* becomes 0, a non-positive resolution the default, and the two positions
\* are swapped when the first is the larger one.
AxisDefinition(type, minPosition, maxPosition, maxVelocity, maxAcceleration, resolution) ==
    [type |-> type,
     minPosition |-> IF minPosition > maxPosition THEN maxPosition ELSE minPosition,
     maxPosition |-> IF minPosition > maxPosition THEN minPosition ELSE maxPosition,
     maxVelocity |-> IF maxVelocity > 0 THEN maxVelocity ELSE 0,
     maxAcceleration |-> IF maxAcceleration > 0 THEN maxAcceleration ELSE 0,
     resolution |-> IF resolution > 0 THEN resolution ELSE DefaultResolution]

\* isValid(); every value of the model is finite.
AxisDefinition_isValid(a) ==
    /\ a.minPosition < a.maxPosition
    /\ a.maxVelocity > 0
    /\ a.maxAcceleration > 0
    /\ a.resolution > 0

\* std::max(minPosition_, std::min(maxPosition_, position))
clampPosition(a, position) ==
    LET m == IF position < a.maxPosition THEN position ELSE a.maxPosition
    IN IF a.minPosition < m THEN m ELSE a.minPosition

\* ------------------------------------------------------------------------
\* SpecAxis: axis definitions built from finite arguments
\* ------------------------------------------------------------------------

AxisRates == {-1, 0, 100}

AxisResolutions == {-1, 0, 1, 5}

NoDefinition == [args |-> <<>>, axis |-> NoAxis, position |-> 0, clamped |-> 0]

AxisInit ==
    /\ eng = [r \in Slots |-> SimulationEngineBase(DefaultTimeStep)]
    /\ st = [r \in Slots |-> Nil]
    /\ heap = [g \in GridIds |-> Nil]
    /\ ctl = [r \in Slots |-> StepController(TRUE)]
    /\ last = NoCall
    /\ lifecycle = "none"
    /\ DetIdle /\ TpIdle /\ GeoIdle
    /\ kin = NoDefinition

\* AxisDefinition axis(type, lo, hi, v, a, r)
Axis_construct ==
    /\ kin.axis = NoAxis
    /\ \E type \in {"X", "A"}, lo \in AxisValues, hi \in AxisValues,
          v \in AxisRates, a \in AxisRates, r \in AxisResolutions :
          kin' = [args |-> <<type, lo, hi, v, a, r>>,
                  axis |-> AxisDefinition(type, lo, hi, v, a, r),
                  position |-> 0, clamped |-> 0]

\* clamped = axis.clampPosition(position)
Axis_clampPosition ==
    /\ kin.axis # NoAxis
    /\ \E p \in AxisValues :
          kin' = [kin EXCEPT !.position = p, !.clamped = clampPosition(kin.axis, p)]

AxisNext ==
    \/ Axis_construct
    \/ Axis_clampPosition

SpecAxis == AxisInit /\ [][AxisNext /\ UNCHANGED <<simVars, detVars, tpVars, geo>>]_vars

\* C27: every AxisDefinition the constructor produces from finite arguments
\* has minPosition < maxPosition and a positive maxVelocity, maxAcceleration
\* and resolution, that is, isValid() is true.
C27_AxisDefinitionValid ==
    kin.axis # NoAxis =>
        /\ kin.axis.minPosition < kin.axis.maxPosition
        /\ kin.axis.maxVelocity > 0
        /\ kin.axis.maxAcceleration > 0
        /\ kin.axis.resolution > 0
        /\ AxisDefinition_isValid(kin.axis)

\* The last call was one of the two stepN overloads on a non-null engine.
StepNCall == last.op \in {"stepN", "stepNList"} /\ ctl[1].engine

\* The increase of state.getStepCount() caused by the last call.
StepCountIncrease == st[1].stepCount - last.preStepCount

\* The batch of the last call stopped at a step that reached doStep and
\* came back with an error or a collision.
StoppedInDoStep ==
    /\ last.executed < Len(last.outs)
    /\ last.preInitialized /\ last.preValid

\* C28 as claimed: for both stepN overloads on a non-null engine the
\* returned number of executed steps equals the increase of the state's
\* step counter, in every case.
C28_ExecutedEqualsIncrease ==
    StepNCall => last.executed = StepCountIncrease

\* C28: for both stepN overloads on a non-null engine the increase of the
\* state's step counter is the number of doStep calls; it equals the
\* returned number of executed steps when every attempted step succeeds or
\* the batch is rejected before doStep (engine uninitialized, state
\* invalid), and exceeds it by one when the batch stops at a step whose
\* doStep returned an error or a collision.
C28_ExecutedVsIncrease ==
    StepNCall =>
        /\ StepCountIncrease = last.doStepCalls
        /\ StepCountIncrease =
              IF StoppedInDoStep THEN last.executed + 1 ELSE last.executed

\* A batch of two steps stopped at a collision in its second step: one step
\* executed, the counter two higher.
C28_Witness ==
    /\ StepNCall
    /\ Len(last.outs) = 2
    /\ last.executed = 1
    /\ StepCountIncrease = 2
    /\ ctl[1].lastResult.collisionDetected

\* ------------------------------------------------------------------------
\* SpecAssign: two states that are stepped by one engine and assigned to
\* each other
\* ------------------------------------------------------------------------

AssignNext ==
    \/ \E r \in Slots : Eng_initialize(r)
    \/ \E r \in Slots : Eng_step(r)
    \/ \E r \in Slots : Eng_assign(r)

SpecAssign == EngInit /\ [][AssignNext /\ UNCHANGED <<detVars, tpVars, pureVars>>]_vars

\* C29: after the copy assignment a = b of two distinct states, a agrees
\* with b on step counter, time accumulator, seed, tool pose, machine axes
\* and isValid(), and the grid of a is a clone of the grid of b, or absent
\* when b has none.
C29_AssignmentFaithful ==
    last.op = "assign" =>
        LET a == st[last.slot]
            b == st[Other(last.slot)]
        IN /\ a.stepCount = b.stepCount
           /\ a.timeAccumulator = b.timeAccumulator
           /\ a.deterministicSeed = b.deterministicSeed
           /\ a.toolPose = b.toolPose
           /\ a.machineAxes = b.machineAxes
           /\ State_isValid(a, heap) = State_isValid(b, heap)
           /\ IF b.grid = 0 THEN a.grid = 0
              ELSE a.grid # 0 /\ a.grid # b.grid /\ heap[a.grid] = heap[b.grid]

====
